---- MODULE Spec2Model ----
(***************************************************************************)
(* Verification model of the analysis backend: the two video frame         *)
(* samplers and the validation of num_frames in front of them, the         *)
(* per-frame orchestration and summary of VideoService.analyze_video, the  *)
(* batch endpoint analyze_batch, and the audio classifier of               *)
(* AudioAnalyzer.analyze_complete_audio.                                   *)
(*                                                                         *)
(* Conventions.                                                            *)
(*  - A Python str is a sequence of string tokens; "" is << >>, string     *)
(*    concatenation is \o and truthiness of a str is Len(s) > 0.           *)
(*  - An Optional[float] time is << >> for None and <<t>> for the time of  *)
(*    t/TimeDen seconds.                                                   *)
(*  - A frame timestamp (frame_idx / fps) is a reduced fraction <<n, d>>.  *)
(***************************************************************************)
EXTENDS Integers, Sequences, FiniteSets, TLC

VARIABLES
    pc,             \* position of the call being modelled
    total_frames,   \* cv2.CAP_PROP_FRAME_COUNT of the video
    fps,            \* cv2.CAP_PROP_FPS of the video
    num_frames,     \* requested number of frames
    start_time,     \* Optional window start: << >> or <<t>>, t/TimeDen seconds
    end_time,       \* Optional window end: << >> or <<t>>, t/TimeDen seconds
    start_frame,    \* _analyze_video_frames: first frame of the range
    end_frame,      \* _analyze_video_frames: one past the last frame
    frame_indices,  \* the sampler's index list
    file_valid,     \* whether FileValidator.validate_upload accepts the upload
    frames_data,    \* VideoService: frames read successfully
    frame_analyses, \* VideoService: per-frame analysis entries
    frame_ok,       \* history: per entry of frame_analyses, did the analysis succeed
    raised,         \* history: per analysed item, str(e) of the exception raised (<< >>: none)
    summary,        \* VideoService: the video summary
    models_loaded,  \* ModelManager.models_loaded
    moondream_loaded, \* MoondreamModel.loaded
    whisper_loaded, \* WhisperModel.loaded
    files,          \* analyze_batch: the submitted files
    idx,            \* analyze_batch: loop index i
    results,        \* analyze_batch: the results list
    calls,          \* history: indices of the items whose analysis was invoked
    inflight,       \* the item whose analysis is pending: << >> or <<i>>
    response,       \* analyze_batch: the HTTP outcome
    zcr_mean,       \* _detect_audio_type: np.mean(zcr), in hundredths
    sc_std,         \* _detect_audio_type: np.std(spectral_centroids), in Hz
    features,       \* _extract_features: tempo, rms_energy_mean, spectral_centroid_mean
    audio_type,     \* analyze_complete_audio: "" until detected
    mood,           \* analyze_complete_audio: << >> or <<the dict of _analyze_mood>>
    hpss,           \* history: << >> or <<harmonic_energy, percussive_energy>>
    music_analysis, \* analyze_complete_audio: << >> (None) or <<the dict>>
    upload,         \* FileValidator: the UploadFile (filename, size in bytes)
    expected_type,  \* FileValidator: 'image', 'video' or 'audio'
    file_pos,       \* FileValidator: read position of upload.file
    outcome,        \* FileValidator: what the call returned or raised
    initialization_error, \* ModelManager.initialization_error: << >> (None) or the message
    load_success,   \* load_all_models: the local success
    load_errors,    \* load_all_models: the local errors list
    loads,          \* number of load_all_models calls made
    health,         \* the response of GET /api/health: << >> or <<response>>
    got,            \* what get_moondream_model / get_whisper_model returned or raised
    image_format,   \* WorkingAWSAnalyzer.analyze_image: the detected image format
    e1,             \* the exception of the invoke_model strategy (Optional)
    e2,             \* the exception of the converse strategy (Optional)
    attempt_log,    \* history: the strategies invoked, in order
    aws_result,     \* the dictionary analyze_image returned (Optional)
    upload_content_type, \* the upload's MIME type (empty: none given)
    temp_path,      \* analyze_video / transcribe_audio: temp_path (Optional)
    tempdir,        \* the files of the temporary directory
    created,        \* history: the temporary files the call created
    pending,        \* the exception propagating out of the try block (Optional)
    returned,       \* the dictionary the call returns (Optional)
    cap_state,      \* _analyze_video_frames: the cv2.VideoCapture: none, open or released
    temp_files,     \* _analyze_video_frames: temp_files
    tmp_images,     \* the temporary images that exist
    frame_pos,      \* the number of iterations of the frame loop done
    mm_analyses,    \* _analyze_video_frames: frame_analyses, as frame numbers
    fr_pending,     \* an exception is propagating out of the frame loop
    src_method,     \* the method of MultimodalAnalysisService that is called
    path_or_url,    \* its first argument
    analyzer_available,\* self.aws_analyzer / self.local_audio_analyzer is set
    disk,           \* the files that exist
    downloaded,     \* history: the files _download_file_from_url created
    local_path,     \* the path _resolve_file_path returned (Optional)
    temp_file_path, \* the method's temp_file_path (Optional)
    src_result      \* the dictionary the method returned (Optional)

vars == <<pc, total_frames, fps, num_frames, start_time, end_time, start_frame,
          end_frame, frame_indices, file_valid, frames_data, frame_analyses,
          frame_ok, raised, summary, models_loaded, moondream_loaded,
          whisper_loaded, files, idx, results, calls, inflight, response,
          zcr_mean, sc_std, features, audio_type, mood, hpss, music_analysis,
          upload, expected_type, file_pos, outcome,
          initialization_error, load_success, load_errors, loads, health, got,
          image_format, e1, e2, attempt_log, aws_result,
          upload_content_type, temp_path, tempdir, created, pending, returned,
          cap_state, temp_files, tmp_images, frame_pos, mm_analyses, fr_pending,
          src_method, path_or_url, analyzer_available, disk, downloaded, local_path, temp_file_path, src_result>>

samplerVars == <<total_frames, fps, num_frames, start_time, end_time,
                 start_frame, end_frame, frame_indices>>
videoVars == <<file_valid, frames_data, frame_analyses, frame_ok, summary>>
modelVars == <<models_loaded, moondream_loaded, whisper_loaded>>
batchVars == <<files, idx, results, calls, inflight, response>>
audioVars == <<zcr_mean, sc_std, features, audio_type, mood, hpss, music_analysis>>
validatorVars == <<upload, expected_type, file_pos, outcome>>
managerVars == <<initialization_error, load_success, load_errors, loads, health, got>>
analyzerVars == <<image_format, e1, e2, attempt_log, aws_result>>
uploadVars == <<upload_content_type, temp_path, tempdir, created, pending, returned>>
framesVars == <<cap_state, temp_files, tmp_images, frame_pos, mm_analyses, fr_pending>>
sourceVars == <<src_method, path_or_url, analyzer_available, disk, downloaded, local_path, temp_file_path, src_result>>
\* the variables of the components no video, batch or audio action touches
auxVars == <<validatorVars, managerVars, analyzerVars, uploadVars, framesVars, sourceVars>>

----------------------------------------------------------------------------
(* Bounds of the model and program constants *)

MaxTotalFrames == 22
MaxTime == 4
MaxVideoFrames == 4
MaxVideoNum == 3
MaxExtraFiles == 1
TimeDen == 2
MaxNumFrames == 20
MaxBatchFiles == 10

None == << >>

FpsSet == {0, 1, 3, 30}
VideoFpsSet == {0, 1, 2}
TotalFramesSet == (0..MaxTotalFrames) \cup {300}
OptTimeSet == {None} \cup {<<t>> : t \in (-1)..MaxTime}
NumFramesSet == 0..(MaxNumFrames + 1)

----------------------------------------------------------------------------
(* Python arithmetic *)

Max2(a, b) == IF a >= b THEN a ELSE b
Min2(a, b) == IF a <= b THEN a ELSE b

\* int(a / b) for b > 0: truncation toward zero
IntDiv(a, b) == IF a >= 0 THEN a \div b ELSE -((-a) \div b)

RECURSIVE Gcd(_, _)
Gcd(a, b) == IF b = 0 THEN a ELSE Gcd(b, a % b)

\* frame_idx / fps if fps > 0 else 0, as a reduced fraction
Timestamp(frame_idx, f) ==
    IF f > 0
    THEN LET g == Gcd(frame_idx, f) IN <<frame_idx \div g, f \div g>>
    ELSE <<0, 1>>

----------------------------------------------------------------------------
(* Validation of num_frames at the request boundary *)

NumFramesRejectedMutantNoUpper(n) == n < 1

\* if num_frames < 1 or num_frames > 20 (enhanced_video.py), and
\* Field(ge=1, le=20) of VideoAnalysisRequest.num_frames
NumFramesRejected(n) == n < 1 \/ n > MaxNumFrames

\* analyze_video_by_path: HTTP 400 for a num_frames outside 1..20, otherwise
\* the call of multimodal_service.analyze_video
ValidateNumFrames ==
    /\ pc = "ep_start"
    /\ pc' = IF NumFramesRejected(num_frames) THEN "ep_rejected" ELSE "mm_start"
    /\ UNCHANGED <<samplerVars, videoVars, modelVars, auxVars, audioVars, batchVars, raised>>

\* get_video_request: VideoAnalysisRequest(num_frames=...) raises a
\* ValidationError for a num_frames outside 1..20, otherwise the request
\* reaches VideoService._extract_frames
BuildVideoRequest ==
    /\ pc = "rq_start"
    /\ pc' = IF NumFramesRejected(num_frames) THEN "rq_rejected" ELSE "vs_start"
    /\ UNCHANGED <<samplerVars, videoVars, modelVars, auxVars, audioVars, batchVars, raised>>

----------------------------------------------------------------------------
(* MultimodalAnalysisService._analyze_video_frames: the frame sampler *)

\* start_time is not None and end_time is not None
HasWindow == start_time # None /\ end_time # None

\* round(a / b) for b > 0: Python rounds halves to the even integer
PyRound(a, b) ==
    LET n == IF a >= 0 THEN a ELSE -a
        q == n \div b
        r == n % b
        m == IF 2 * r < b THEN q
             ELSE IF 2 * r > b THEN q + 1
             ELSE IF q % 2 = 0 THEN q ELSE q + 1
    IN  IF a >= 0 THEN m ELSE -m

WindowStartFrameMutantNoUpper(st, f, total) ==
    Max2(0, IntDiv(st * f, TimeDen))

WindowStartFrameMutantRound(st, f, total) ==
    Max2(0, Min2(PyRound(st * f, TimeDen), total - 1))

\* start_frame = max(0, min(int(start_time * fps), total_frames - 1))
WindowStartFrame(st, f, total) ==
    Max2(0, Min2(IntDiv(st * f, TimeDen), total - 1))

WindowEndFrameMutantNoFloor(sf, et, f, total) ==
    Min2(IntDiv(et * f, TimeDen), total)

\* end_frame = max(start_frame + 1, min(int(end_time * fps), total_frames))
WindowEndFrame(sf, et, f, total) ==
    Max2(sf + 1, Min2(IntDiv(et * f, TimeDen), total))

\* the evenly distributed indices start + int(i * size / n) for i in range(n)
EvenIndices(sf, size, n) ==
    [i \in 1..n |-> sf + IntDiv((i - 1) * size, n)]

\* list(range(sf, ef))
RangeList(sf, ef) ==
    [i \in 1..Max2(0, ef - sf) |-> sf + i - 1]

FrameIndicesMutantTotal(sf, ef, total, n) ==
    IF ef - sf < n THEN RangeList(sf, ef) ELSE EvenIndices(sf, total, n)

FrameIndices(sf, ef, total, n) ==
    IF ef - sf < n THEN RangeList(sf, ef) ELSE EvenIndices(sf, ef - sf, n)

AnalyzeVideoFramesSample ==
    /\ pc = "mm_start"
    /\ IF HasWindow
       THEN LET sf == WindowStartFrame(start_time[1], fps, total_frames)
                ef == WindowEndFrame(sf, end_time[1], fps, total_frames)
            IN  /\ start_frame' = sf
                /\ end_frame' = ef
                /\ IF fps = 0
                   THEN \* actual_duration = (end_frame - start_frame) / fps raises
                        /\ pc' = "mm_raised"
                        /\ frame_indices' = frame_indices
                   ELSE /\ pc' = "mm_sampled"
                        /\ frame_indices' = FrameIndices(sf, ef, total_frames, num_frames)
       ELSE /\ start_frame' = 0
            /\ end_frame' = total_frames
            /\ pc' = "mm_sampled"
            /\ frame_indices' = FrameIndices(0, total_frames, total_frames, num_frames)
    /\ UNCHANGED <<total_frames, fps, num_frames, start_time, end_time>>
    /\ UNCHANGED <<videoVars, modelVars, auxVars, audioVars, batchVars, raised>>

----------------------------------------------------------------------------
(* VideoService._extract_frames: the frame sampler *)

ExtractIndicesMutantShift(total, n) ==
    [i \in 1..n |-> IntDiv(i * total, n)]

\* [int(i * total_frames / num_frames) for i in range(num_frames)]
ExtractIndices(total, n) ==
    [i \in 1..n |-> IntDiv((i - 1) * total, n)]

ExtractFramesSample ==
    /\ pc = "vs_start"
    /\ frame_indices' = ExtractIndices(total_frames, num_frames)
    /\ pc' = "vs_sampled"
    /\ UNCHANGED <<total_frames, fps, num_frames, start_time, end_time,
                   start_frame, end_frame>>
    /\ UNCHANGED <<videoVars, modelVars, auxVars, audioVars, batchVars, raised>>

----------------------------------------------------------------------------
(* Specification of the samplers: the inputs are drawn in the initial state *)

IdleVideo ==
    /\ file_valid = TRUE
    /\ frames_data = << >>
    /\ frame_analyses = << >>
    /\ frame_ok = << >>
    /\ raised = << >>
    /\ summary = None

IdleModels ==
    /\ models_loaded = FALSE
    /\ moondream_loaded = FALSE
    /\ whisper_loaded = FALSE

IdleBatch ==
    /\ files = << >>
    /\ idx = 0
    /\ results = << >>
    /\ calls = << >>
    /\ inflight = None
    /\ response = [status |-> 0]

IdleManager ==
    /\ initialization_error = None
    /\ load_success = TRUE
    /\ load_errors = << >>
    /\ loads = 0
    /\ health = None
    /\ got = None

IdleUpload ==
    /\ upload_content_type = << >>
    /\ temp_path = None
    /\ tempdir = {}
    /\ created = {}
    /\ pending = None
    /\ returned = None

IdleFrames ==
    /\ cap_state = "none"
    /\ temp_files = << >>
    /\ tmp_images = {}
    /\ frame_pos = 0
    /\ mm_analyses = << >>
    /\ fr_pending = FALSE

IdleSource ==
    /\ src_method = "analyze_image"
    /\ path_or_url = [scheme |-> "", file |-> "src"]
    /\ analyzer_available = FALSE
    /\ disk = {}
    /\ downloaded = {}
    /\ local_path = None
    /\ temp_file_path = None
    /\ src_result = None

IdleAnalyzer ==
    /\ image_format = None
    /\ e1 = None
    /\ e2 = None
    /\ attempt_log = << >>
    /\ aws_result = None

IdleSampler ==
    /\ total_frames = 0
    /\ fps = 0
    /\ num_frames = 1
    /\ start_time = None
    /\ end_time = None
    /\ start_frame = 0
    /\ end_frame = 0
    /\ frame_indices = << >>

IdleValidator ==
    /\ upload = [filename |-> << >>, size |-> 0]
    /\ expected_type = "image"
    /\ file_pos = 0
    /\ outcome = None

IdleAudio ==
    /\ zcr_mean = 0
    /\ sc_std = 0
    /\ features = [tempo |-> 0, rms_energy_mean |-> 0, spectral_centroid_mean |-> 0]
    /\ audio_type = ""
    /\ mood = None
    /\ hpss = None
    /\ music_analysis = None

InitSampler ==
    /\ total_frames \in TotalFramesSet
    /\ fps \in FpsSet
    /\ num_frames \in NumFramesSet
    /\ \/ /\ pc = "ep_start"
          /\ start_time \in OptTimeSet
          /\ end_time \in OptTimeSet
       \/ /\ pc = "rq_start"
          /\ start_time = None
          /\ end_time = None
    /\ start_frame = 0
    /\ end_frame = 0
    /\ frame_indices = << >>
    /\ IdleVideo
    /\ IdleModels
    /\ IdleBatch
    /\ IdleAudio
    /\ IdleValidator
    /\ IdleManager
    /\ IdleSource
    /\ IdleFrames
    /\ IdleUpload
    /\ IdleAnalyzer

NextSampler ==
    \/ ValidateNumFrames
    \/ BuildVideoRequest
    \/ AnalyzeVideoFramesSample
    \/ ExtractFramesSample

SpecSampler == InitSampler /\ [][NextSampler]_vars

----------------------------------------------------------------------------
(* Python strings and lists *)

\* " ".join(parts)
RECURSIVE Join(_)
Join(parts) ==
    IF Len(parts) = 0 THEN << >>
    ELSE IF Len(parts) = 1 THEN parts[1]
    ELSE parts[1] \o <<" ">> \o Join(Tail(parts))

\* round-half-even of n / d to an integer, d > 0, n >= 0
RoundHalfEven(n, d) ==
    LET q == n \div d
        r == n % d
    IN  IF 2 * r < d THEN q
        ELSE IF 2 * r > d THEN q + 1
        ELSE IF q % 2 = 0 THEN q ELSE q + 1

\* f"{timestamp:.1f}" of the fraction ts (exact for the dyadic timestamps used)
Fmt1(ts) ==
    LET t10 == RoundHalfEven(10 * ts[1], ts[2])
    IN  <<ToString(t10 \div 10), ".", ToString(t10 % 10)>>

\* [x for (x, keep) in zip(s, keep) if keep]
RECURSIVE Keep(_, _)
Keep(s, keep) ==
    IF Len(s) = 0 THEN << >>
    ELSE (IF keep[1] THEN <<s[1]>> ELSE << >>) \o Keep(Tail(s), Tail(keep))

Count(s, Test(_)) == Len(SelectSeq(s, Test))

StrictlyIncreasing(s) == \A i \in 1..(Len(s) - 1) : s[i] < s[i + 1]
NoDuplicates(s) == \A i, j \in 1..Len(s) : i # j => s[i] # s[j]

----------------------------------------------------------------------------
(* ModelManager *)

\* ModelManager.is_ready
IsReady == models_loaded /\ moondream_loaded /\ whisper_loaded

\* the states of (models_loaded, moondream loaded, whisper loaded) before and
\* after the startup call of load_all_models
ModelStates ==
    { <<FALSE, FALSE, FALSE>>, <<FALSE, TRUE, FALSE>>,
      <<FALSE, FALSE, TRUE>>, <<TRUE, TRUE, TRUE>> }

InitModels ==
    \E m \in ModelStates :
        /\ models_loaded = m[1]
        /\ moondream_loaded = m[2]
        /\ whisper_loaded = m[3]

----------------------------------------------------------------------------
(* VideoService.analyze_video *)

\* what the vision model can answer for a frame (result["description"])
Descriptions == { << >>, <<"a cat">>, <<"a dog">> }

\* str(e) of what MoondreamModel.analyze_video_frame can raise
FrameErrors ==
    { <<"Video frame analysis failed: ", "out of memory">> }
ModelNotLoadedError == <<"Model not loaded">>

\* VideoService._generate_video_summary
GenerateVideoSummary(fa) ==
    IF Len(fa) = 0
    THEN <<"No frames were successfully analyzed.">>
    ELSE LET descriptions ==
                 SelectSeq([i \in 1..Len(fa) |-> fa[i].description],
                           LAMBDA d : Len(d) > 0)
         IN  IF Len(descriptions) = 0
             THEN <<"Video analysis completed but no descriptions were generated.">>
             ELSE IF Len(descriptions) = 1
             THEN Join(<< <<"This video shows: ">> \o descriptions[1] >>)
             ELSE Join(<< <<"This video contains the following scenes:">> >>
                       \o [i \in 1..Len(descriptions) |->
                              <<"At ">> \o Fmt1(fa[i].timestamp) \o <<"s: ">>
                                  \o descriptions[i]])

\* analyze_video, rejected upload: FileValidator.validate_upload raises
VideoValidateFails ==
    /\ pc = "v_start"
    /\ ~file_valid
    /\ pc' = "v_raised"
    /\ UNCHANGED <<samplerVars, videoVars, modelVars, auxVars, audioVars, batchVars, raised>>

\* analyze_video, _extract_frames: the sampled indices are read one by one;
\* a frame whose read fails (ret false) is left out of frames_data
VideoExtractFrames ==
    /\ pc = "v_start"
    /\ file_valid
    /\ LET indices == ExtractIndices(total_frames, num_frames)
       IN  /\ frame_indices' = indices
           /\ \E ret \in [1..Len(indices) -> BOOLEAN] :
                  frames_data' =
                      Keep([i \in 1..Len(indices) |->
                               [frame_number |-> indices[i],
                                timestamp |-> Timestamp(indices[i], fps)]],
                           ret)
    /\ pc' = "v_get_model"
    /\ UNCHANGED <<total_frames, fps, num_frames, start_time, end_time,
                   start_frame, end_frame>>
    /\ UNCHANGED <<file_valid, frame_analyses, frame_ok, raised, summary>>
    /\ UNCHANGED <<modelVars, auxVars, audioVars, batchVars>>

\* analyze_video, model_manager.get_moondream_model()
VideoGetModel ==
    /\ pc = "v_get_model"
    /\ pc' = IF models_loaded THEN "v_loop" ELSE "v_raised"
    /\ UNCHANGED <<samplerVars, videoVars, modelVars, auxVars, audioVars, batchVars, raised>>

\* the entry appended when analyze_video_frame returned description d
FrameSuccessEntry(fd, d) ==
    [timestamp |-> fd.timestamp, frame_number |-> fd.frame_number,
     description |-> d]

FrameFailureEntryMutantDrop(fd, e) ==
    [timestamp |-> fd.timestamp, frame_number |-> fd.frame_number,
     description |-> <<"Analysis failed">>]

\* the entry appended when analyze_video_frame raised an exception e, str(e) = e
FrameFailureEntry(fd, e) ==
    [timestamp |-> fd.timestamp, frame_number |-> fd.frame_number,
     description |-> <<"Analysis failed: ">> \o e]

\* analyze_video, one iteration of the frame loop: the synchronous call
\* moondream_model.analyze_video_frame(frame_data["image"], ...) is entered
VideoFrameStart ==
    /\ pc = "v_loop"
    /\ Len(frame_analyses) < Len(frames_data)
    /\ calls' = Append(calls, Len(frame_analyses))
    /\ inflight' = <<Len(frame_analyses)>>
    /\ pc' = "v_call"
    /\ UNCHANGED <<samplerVars, videoVars, modelVars, auxVars, audioVars, raised>>
    /\ UNCHANGED <<files, idx, results, response>>

\* analyze_video, the pending frame analysis returns
VideoFrameSuccess ==
    /\ pc = "v_call"
    /\ moondream_loaded
    /\ \E d \in Descriptions :
           frame_analyses' = Append(frame_analyses,
               FrameSuccessEntry(frames_data[Len(frame_analyses) + 1], d))
    /\ frame_ok' = Append(frame_ok, TRUE)
    /\ raised' = Append(raised, << >>)
    /\ inflight' = None
    /\ pc' = "v_loop"
    /\ UNCHANGED <<samplerVars, file_valid, frames_data, summary>>
    /\ UNCHANGED <<modelVars, auxVars, audioVars, files, idx, results, calls, response>>

\* analyze_video, the pending frame analysis raises
VideoFrameFailure ==
    /\ pc = "v_call"
    /\ \E e \in (IF moondream_loaded THEN FrameErrors ELSE {ModelNotLoadedError}) :
           /\ frame_analyses' = Append(frame_analyses,
                  FrameFailureEntry(frames_data[Len(frame_analyses) + 1], e))
           /\ raised' = Append(raised, e)
    /\ frame_ok' = Append(frame_ok, FALSE)
    /\ inflight' = None
    /\ pc' = "v_loop"
    /\ UNCHANGED <<samplerVars, file_valid, frames_data, summary>>
    /\ UNCHANGED <<modelVars, auxVars, audioVars, files, idx, results, calls, response>>

\* analyze_video, after the loop: the summary and the response
VideoFinish ==
    /\ pc = "v_loop"
    /\ Len(frame_analyses) = Len(frames_data)
    /\ summary' = GenerateVideoSummary(frame_analyses)
    /\ pc' = "v_done"
    /\ UNCHANGED <<samplerVars, file_valid, frames_data, frame_analyses,
                   frame_ok, raised>>
    /\ UNCHANGED <<modelVars, auxVars, audioVars, batchVars>>

InitVideo ==
    /\ pc = "v_start"
    /\ total_frames \in 0..MaxVideoFrames
    /\ fps \in VideoFpsSet
    /\ num_frames \in 1..MaxVideoNum
    /\ start_time = None
    /\ end_time = None
    /\ start_frame = 0
    /\ end_frame = 0
    /\ frame_indices = << >>
    /\ file_valid \in BOOLEAN
    /\ frames_data = << >>
    /\ frame_analyses = << >>
    /\ frame_ok = << >>
    /\ raised = << >>
    /\ summary = None
    /\ InitModels
    /\ IdleAudio
    /\ IdleValidator
    /\ IdleManager
    /\ IdleSource
    /\ IdleFrames
    /\ IdleUpload
    /\ IdleAnalyzer
    /\ files = << >>
    /\ idx = 0
    /\ results = << >>
    /\ calls = << >>
    /\ inflight = None
    /\ response = [status |-> 0]

----------------------------------------------------------------------------
(* File names: a name is a sequence of one-character strings *)

LowerMap ==
    ("A" :> "a") @@
    ("B" :> "b") @@
    ("C" :> "c") @@
    ("D" :> "d") @@
    ("E" :> "e") @@
    ("F" :> "f") @@
    ("G" :> "g") @@
    ("H" :> "h") @@
    ("I" :> "i") @@
    ("J" :> "j") @@
    ("K" :> "k") @@
    ("L" :> "l") @@
    ("M" :> "m") @@
    ("N" :> "n") @@
    ("O" :> "o") @@
    ("P" :> "p") @@
    ("Q" :> "q") @@
    ("R" :> "r") @@
    ("S" :> "s") @@
    ("T" :> "t") @@
    ("U" :> "u") @@
    ("V" :> "v") @@
    ("W" :> "w") @@
    ("X" :> "x") @@
    ("Y" :> "y") @@
    ("Z" :> "z")

\* str.lower()
Lower(s) == [i \in 1..Len(s) |-> IF s[i] \in DOMAIN LowerMap THEN LowerMap[s[i]] ELSE s[i]]

\* str.endswith(suffix)
EndsWith(s, suffix) ==
    /\ Len(suffix) <= Len(s)
    /\ SubSeq(s, Len(s) - Len(suffix) + 1, Len(s)) = suffix

\* str.startswith(prefix)
StartsWith(s, prefix) ==
    /\ Len(prefix) <= Len(s)
    /\ SubSeq(s, 1, Len(prefix)) = prefix

\* pathlib.Path(name).suffix of a name without directory separators
Suffix(name) ==
    LET dots == {i \in 1..Len(name) : name[i] = "."}
    IN  IF dots = {} THEN << >>
        ELSE LET i == CHOOSE d \in dots : \A e \in dots : e <= d
             IN  IF 1 < i /\ i < Len(name) THEN SubSeq(name, i, Len(name))
                 ELSE << >>

\* batch.py: image_exts, video_exts, audio_exts; config.py: SUPPORTED_FORMATS
ImageExts ==
    { <<".", "j", "p", "g">>,
      <<".", "j", "p", "e", "g">>,
      <<".", "p", "n", "g">>,
      <<".", "w", "e", "b", "p">>,
      <<".", "b", "m", "p">>,
      <<".", "g", "i", "f">> }
VideoExts ==
    { <<".", "m", "p", "4">>,
      <<".", "a", "v", "i">>,
      <<".", "m", "o", "v">>,
      <<".", "m", "k", "v">> }
AudioExts ==
    { <<".", "m", "p", "3">>,
      <<".", "w", "a", "v">>,
      <<".", "m", "4", "a">>,
      <<".", "f", "l", "a", "c">>,
      <<".", "o", "g", "g">> }

SupportedFormats(type) ==
    CASE type = "image" -> ImageExts
      [] type = "video" -> VideoExts
      [] type = "audio" -> AudioExts

\* the uploads a batch is made of: filename and content_type (<< >> for none)
FilePool ==
    << [filename |-> <<"a", ".", "J", "P", "G">>, content_type |-> <<"i", "m", "a", "g", "e", "/", "j", "p", "e", "g">>],
       [filename |-> <<"b", ".", "m", "p", "4">>, content_type |-> << >>],
       [filename |-> <<"c", ".", "w", "a", "v">>, content_type |-> <<"a", "u", "d", "i", "o", "/", "w", "a", "v">>],
       [filename |-> <<"d", ".", "b", "i", "n">>, content_type |-> <<"A", "u", "d", "i", "o", "/", "x">>],
       [filename |-> <<"e">>, content_type |-> << >>],
       [filename |-> << >>, content_type |-> <<"i", "m", "a", "g", "e", "/", "p", "n", "g">>] >>

----------------------------------------------------------------------------
(* analyze_batch *)

\* _determine_file_type: [raised |-> FALSE, value |-> type] or
\* [raised |-> TRUE, value |-> str(ValueError)]
DetermineFileType(file) ==
    LET filename_lower == Lower(file.filename)
        content_type == Lower(file.content_type)
    IN  IF Len(file.filename) = 0
        THEN [raised |-> TRUE, value |-> <<"No filename provided">>]
        ELSE IF \E ext \in ImageExts : EndsWith(filename_lower, ext)
        THEN [raised |-> FALSE, value |-> "image"]
        ELSE IF \E ext \in VideoExts : EndsWith(filename_lower, ext)
        THEN [raised |-> FALSE, value |-> "video"]
        ELSE IF \E ext \in AudioExts : EndsWith(filename_lower, ext)
        THEN [raised |-> FALSE, value |-> "audio"]
        ELSE IF Len(file.content_type) > 0 /\ StartsWith(content_type, <<"i", "m", "a", "g", "e", "/">>)
        THEN [raised |-> FALSE, value |-> "image"]
        ELSE IF Len(file.content_type) > 0 /\ StartsWith(content_type, <<"v", "i", "d", "e", "o", "/">>)
        THEN [raised |-> FALSE, value |-> "video"]
        ELSE IF Len(file.content_type) > 0 /\ StartsWith(content_type, <<"a", "u", "d", "i", "o", "/">>)
        THEN [raised |-> FALSE, value |-> "audio"]
        ELSE [raised |-> TRUE,
              value |-> <<"Unable to determine file type for ">> \o file.filename]

\* FileValidator.validate_file_type, as called first by each service
ValidFileType(file, type) ==
    /\ Len(file.filename) > 0
    /\ Lower(Suffix(file.filename)) \in SupportedFormats(type)

\* str(e) of what a service (ImageService.analyze_image,
\* VideoService.analyze_video, AudioService.transcribe_audio) can raise for an
\* upload of a supported type: size limit, model not loaded, analysis error
ServiceErrors ==
    { <<"413: File size exceeds maximum allowed size">>,
      <<"Image analysis failed: ", "out of memory">> }

\* the outcomes of the service call for file of the determined type
ServiceOutcomes(file, type) ==
    IF ValidFileType(file, type)
    THEN {[raised |-> FALSE, value |-> <<"result of ">> \o file.filename]}
         \cup {[raised |-> TRUE, value |-> e] : e \in ServiceErrors}
    ELSE {[raised |-> TRUE, value |-> <<"400: File type is not supported for ", type>>]}

BatchCapExceededMutantOffByOne(n) == n >= MaxBatchFiles

\* len(files) > 10
BatchCapExceeded(n) == n > MaxBatchFiles

SuccessEntry(i, file, file_type, result) ==
    [file_index |-> i, filename |-> file.filename, file_type |-> file_type,
     success |-> TRUE, result |-> result]

FailureEntry(i, file, e) ==
    [file_index |-> i, filename |-> file.filename, success |-> FALSE, error |-> e]

ResultsAfterFailureMutantSkip(res, entry) == res

ResultsAfterFailureMutantFront(res, entry) == <<entry>> \o res

\* results.append({... "success": False, "error": str(e)})
ResultsAfterFailure(res, entry) == Append(res, entry)

\* analyze_batch rejected: models not loaded
BatchRejectNotReady ==
    /\ pc = "b_start"
    /\ ~IsReady
    /\ response' = [status |-> 503]
    /\ pc' = "b_done"
    /\ UNCHANGED <<samplerVars, videoVars, modelVars, auxVars, audioVars, files, idx, results, calls, inflight, raised>>

\* analyze_batch rejected: more than 10 files
BatchRejectTooMany ==
    /\ pc = "b_start"
    /\ IsReady
    /\ BatchCapExceeded(Len(files))
    /\ response' = [status |-> 400]
    /\ pc' = "b_done"
    /\ UNCHANGED <<samplerVars, videoVars, modelVars, auxVars, audioVars, files, idx, results, calls, inflight, raised>>

\* analyze_batch accepted: results = []
BatchAccept ==
    /\ pc = "b_start"
    /\ IsReady
    /\ ~BatchCapExceeded(Len(files))
    /\ results' = << >>
    /\ idx' = 0
    /\ pc' = "b_loop"
    /\ UNCHANGED <<samplerVars, videoVars, modelVars, auxVars, audioVars, files, calls, inflight, response, raised>>

BatchAwaitMutantNoAwait == "b_loop"

\* the position of analyze_batch while "await <Service>.analyze...(file)" is
\* pending
BatchAwait == "b_await"

\* one iteration of the loop: the file type is determined and the service
\* coroutine for files[i] is awaited
BatchItemStart ==
    /\ pc = "b_loop"
    /\ idx < Len(files)
    /\ ~DetermineFileType(files[idx + 1]).raised
    /\ calls' = Append(calls, idx)
    /\ inflight' = <<idx>>
    /\ pc' = BatchAwait
    /\ UNCHANGED <<samplerVars, videoVars, modelVars, auxVars, audioVars, raised>>
    /\ UNCHANGED <<files, idx, results, response>>

\* the awaited service call returns
BatchItemSuccess ==
    /\ pc = "b_await"
    /\ LET file == files[idx + 1]
           ft == DetermineFileType(file)
       IN  \E o \in ServiceOutcomes(file, ft.value) :
               /\ ~o.raised
               /\ results' = Append(results, SuccessEntry(idx, file, ft.value, o.value))
    /\ raised' = Append(raised, << >>)
    /\ idx' = idx + 1
    /\ inflight' = None
    /\ pc' = "b_loop"
    /\ UNCHANGED <<samplerVars, videoVars, modelVars, auxVars, audioVars, files, calls, response>>

\* _determine_file_type raises, or the awaited service call raises
BatchItemFailure ==
    /\ \/ /\ pc = "b_loop"
          /\ idx < Len(files)
          /\ LET file == files[idx + 1]
                 ft == DetermineFileType(file)
             IN  /\ ft.raised
                 /\ results' = ResultsAfterFailure(results, FailureEntry(idx, file, ft.value))
                 /\ raised' = Append(raised, ft.value)
       \/ /\ pc = "b_await"
          /\ LET file == files[idx + 1]
                 ft == DetermineFileType(file)
             IN  \E o \in ServiceOutcomes(file, ft.value) :
                     /\ o.raised
                     /\ results' = ResultsAfterFailure(results,
                                       FailureEntry(idx, file, o.value))
                     /\ raised' = Append(raised, o.value)
    /\ idx' = idx + 1
    /\ inflight' = None
    /\ pc' = "b_loop"
    /\ UNCHANGED <<samplerVars, videoVars, modelVars, auxVars, audioVars, files, calls, response>>

\* after the loop: ResponseFormatter.success_response({...})
BatchFinish ==
    /\ pc = "b_loop"
    /\ idx = Len(files)
    /\ response' =
           [status |-> 200,
            results |-> results,
            total_files |-> Len(files),
            successful |-> Len(SelectSeq(results, LAMBDA r : r.success)),
            failed |-> Len(SelectSeq(results, LAMBDA r : ~r.success))]
    /\ pc' = "b_done"
    /\ UNCHANGED <<samplerVars, videoVars, modelVars, auxVars, audioVars, files, idx, results, calls, inflight, raised>>

\* the submitted files: n uploads taken in turn from the pool, starting anywhere
InitBatch ==
    /\ pc = "b_start"
    /\ \E n \in 0..(MaxBatchFiles + MaxExtraFiles), off \in 0..(Len(FilePool) - 1) :
           files = [i \in 1..n |-> FilePool[((i - 1 + off) % Len(FilePool)) + 1]]
    /\ idx = 0
    /\ results = << >>
    /\ calls = << >>
    /\ inflight = None
    /\ response = [status |-> 0]
    /\ InitModels
    /\ total_frames = 0
    /\ fps = 0
    /\ num_frames = 1
    /\ start_time = None
    /\ end_time = None
    /\ start_frame = 0
    /\ end_frame = 0
    /\ frame_indices = << >>
    /\ IdleVideo
    /\ IdleAudio
    /\ IdleValidator
    /\ IdleManager
    /\ IdleSource
    /\ IdleFrames
    /\ IdleUpload
    /\ IdleAnalyzer

----------------------------------------------------------------------------
(* The orchestration specification: one call of analyze_batch or of         *)
(* VideoService.analyze_video, its inputs drawn in the initial state        *)

Init == InitBatch \/ InitVideo

Next ==
    \/ BatchRejectNotReady
    \/ BatchRejectTooMany
    \/ BatchAccept
    \/ BatchItemStart
    \/ BatchItemSuccess
    \/ BatchItemFailure
    \/ BatchFinish
    \/ VideoValidateFails
    \/ VideoExtractFrames
    \/ VideoGetModel
    \/ VideoFrameStart
    \/ VideoFrameSuccess
    \/ VideoFrameFailure
    \/ VideoFinish

Spec == Init /\ [][Next]_vars

----------------------------------------------------------------------------
(* AudioAnalyzer (librosa_audio.py): analyze_complete_audio                 *)
(*                                                                         *)
(* Zero-crossing rate and RMS energy are counted in hundredths (0.08 is 8, *)
(* 0.1 is 10, 0.15 is 15); spectral statistics are in Hz and the tempo in  *)
(* BPM.  The harmonic and percussive energies are counted in units of      *)
(* 1e-10, so that 1e-10 is 1 and 1e-6 is 10000; a quotient is the pair     *)
(* <<numerator, denominator>>.                                             *)

MaxEnergy == 2

ZcrSet == {0, 7, 8, 9, 10, 11}
ScStdSet == {500, 999, 1000, 1001}
TempoSet == {89, 90, 120, 121, 130, 140}
RmsEnergySet == {0, 7, 8, 9, 10, 11, 15, 16, 18, 20}
CentroidSet == {1499, 1500, 2000, 2001, 2200, 2500}

DetectAudioTypeMutantInclusive(zcr, std) ==
    IF zcr >= 10 /\ std < 1000 THEN "speech"
    ELSE IF zcr < 8 /\ std > 1000 THEN "music"
    ELSE "mixed"

\* _detect_audio_type
DetectAudioType(zcr, std) ==
    IF zcr > 10 /\ std < 1000 THEN "speech"
    ELSE IF zcr < 8 /\ std > 1000 THEN "music"
    ELSE "mixed"

ValenceMutantLowerEnergy(spectral_centroid, energy) ==
    IF spectral_centroid > 2000 /\ energy > 5 THEN "positive"
    ELSE IF spectral_centroid < 1500 /\ energy < 8 THEN "negative"
    ELSE "neutral"

\* _analyze_mood: valence
Valence(spectral_centroid, energy) ==
    IF spectral_centroid > 2000 /\ energy > 10 THEN "positive"
    ELSE IF spectral_centroid < 1500 /\ energy < 8 THEN "negative"
    ELSE "neutral"

ArousalMutantBoth(tempo, energy) ==
    IF tempo > 120 /\ energy > 15 THEN "high"
    ELSE IF tempo < 90 /\ energy < 8 THEN "low"
    ELSE "medium"

\* _analyze_mood: arousal
Arousal(tempo, energy) ==
    IF tempo > 120 \/ energy > 15 THEN "high"
    ELSE IF tempo < 90 /\ energy < 8 THEN "low"
    ELSE "medium"

\* _analyze_mood: mood_map
MoodMap ==
    (<<"positive", "high">> :> "Happy/Energetic") @@
    (<<"positive", "medium">> :> "Content/Pleasant") @@
    (<<"positive", "low">> :> "Peaceful/Relaxed") @@
    (<<"neutral", "high">> :> "Excited/Tense") @@
    (<<"neutral", "medium">> :> "Neutral/Balanced") @@
    (<<"neutral", "low">> :> "Calm/Subdued") @@
    (<<"negative", "high">> :> "Angry/Aggressive") @@
    (<<"negative", "medium">> :> "Melancholic/Somber") @@
    (<<"negative", "low">> :> "Sad/Depressing")

\* mood_map.get(key, 'Unknown')
MoodMapGet(key) ==
    IF key \in DOMAIN MoodMap THEN MoodMap[key] ELSE "Unknown"

\* _analyze_mood
AnalyzeMood(f) ==
    LET valence == Valence(f.spectral_centroid_mean, f.rms_energy_mean)
        arousal == Arousal(f.tempo, f.rms_energy_mean)
    IN  [mood |-> MoodMapGet(<<valence, arousal>>),
         valence |-> valence,
         arousal |-> arousal,
         tempo |-> f.tempo,
         energy |-> f.rms_energy_mean]

InstrumentalnessMutantNoGuard(harmonic_energy, percussive_energy) ==
    <<harmonic_energy, harmonic_energy + percussive_energy + 1>>

\* harmonic_energy / (total_energy + 1e-10) if total_energy > 0 else 0.5
Instrumentalness(harmonic_energy, percussive_energy) ==
    LET total_energy == harmonic_energy + percussive_energy
    IN  IF total_energy > 0
        THEN <<harmonic_energy, total_energy + 1>>
        ELSE <<1, 2>>

\* harmonic_energy / (harmonic_energy + 1e-6)
HarmonicRatio(harmonic_energy) ==
    <<harmonic_energy, harmonic_energy + 10000>>

\* _analyze_music: the entries computed from the harmonic-percussive separation
AnalyzeMusic(harmonic_energy, percussive_energy) ==
    [instrumentalness |-> Instrumentalness(harmonic_energy, percussive_energy),
     harmonic_ratio |-> HarmonicRatio(harmonic_energy)]

MusicDetectedMutantMusicOnly(type) == type = "music"

\* audio_type == 'music' or audio_type == 'mixed'
MusicDetected(type) == type = "music" \/ type = "mixed"

\* analyze_complete_audio, step 2: audio_type = self._detect_audio_type(y, sr)
AudioDetectType ==
    /\ pc = "a_start"
    /\ audio_type' = DetectAudioType(zcr_mean, sc_std)
    /\ pc' = "a_typed"
    /\ UNCHANGED <<zcr_mean, sc_std, features, mood, hpss, music_analysis>>
    /\ UNCHANGED <<samplerVars, videoVars, modelVars, auxVars, batchVars, raised>>

\* analyze_complete_audio, steps 3 and 4: features and mood
AudioAnalyzeMood ==
    /\ pc = "a_typed"
    /\ mood' = <<AnalyzeMood(features)>>
    /\ pc' = "a_mood"
    /\ UNCHANGED <<zcr_mean, sc_std, features, audio_type, hpss, music_analysis>>
    /\ UNCHANGED <<samplerVars, videoVars, modelVars, auxVars, batchVars, raised>>

\* analyze_complete_audio, step 5 and the return: _analyze_music is run for
\* music and mixed audio only
AudioAnalyzeMusic ==
    /\ pc = "a_mood"
    /\ IF MusicDetected(audio_type)
       THEN \E h \in 0..MaxEnergy, p \in 0..MaxEnergy :
                /\ hpss' = <<h, p>>
                /\ music_analysis' = <<AnalyzeMusic(h, p)>>
       ELSE /\ hpss' = hpss
            /\ music_analysis' = None
    /\ pc' = "a_done"
    /\ UNCHANGED <<zcr_mean, sc_std, features, audio_type, mood>>
    /\ UNCHANGED <<samplerVars, videoVars, modelVars, auxVars, batchVars, raised>>

\* one call of analyze_complete_audio on a loaded signal with the given
\* statistics
InitAudio ==
    /\ pc = "a_start"
    /\ zcr_mean \in ZcrSet
    /\ sc_std \in ScStdSet
    /\ features \in [tempo : TempoSet, rms_energy_mean : RmsEnergySet,
                     spectral_centroid_mean : CentroidSet]
    /\ audio_type = ""
    /\ mood = None
    /\ hpss = None
    /\ music_analysis = None
    /\ total_frames = 0
    /\ fps = 0
    /\ num_frames = 1
    /\ start_time = None
    /\ end_time = None
    /\ start_frame = 0
    /\ end_frame = 0
    /\ frame_indices = << >>
    /\ IdleVideo
    /\ IdleModels
    /\ IdleBatch
    /\ IdleValidator
    /\ IdleManager
    /\ IdleSource
    /\ IdleFrames
    /\ IdleUpload
    /\ IdleAnalyzer

NextAudio ==
    \/ AudioDetectType
    \/ AudioAnalyzeMood
    \/ AudioAnalyzeMusic

SpecAudio == InitAudio /\ [][NextAudio]_vars

----------------------------------------------------------------------------
(* FileValidator: validate_file_type and validate_file_size *)

MediaTypes == {"image", "video", "audio"}

\* config.py: FILE_LIMITS, in bytes
FileLimits(type) ==
    CASE type = "image" -> 10 * 1024 * 1024
      [] type = "video" -> 100 * 1024 * 1024
      [] type = "audio" -> 50 * 1024 * 1024

\* the file names a validated upload can carry
UploadNames ==
    { << >>,
      <<"t", ".", "j", "p", "g">>,
      <<"T", ".", "J", "P", "G">>,
      <<"t", ".", "t", "x", "t">>,
      <<"t", ".", "m", "p", "4">>,
      <<"t", ".", "m", "p", "3">>,
      <<"t", ".", "m", "p", "4", ".", "w", "a", "v">>,
      <<".", "p", "n", "g">>,
      <<"m", "k", "v">> }

\* the sizes around the limit of a media type, 1 KB and 15 MB
UploadSizes(type) ==
    {0, 1000, FileLimits(type) - 1, FileLimits(type), FileLimits(type) + 1,
     15 * 1024 * 1024}

HttpException(status_code, detail) ==
    [raised |-> TRUE, status_code |-> status_code, detail |-> detail]
ReturnsTrue == [raised |-> FALSE, status_code |-> 0, detail |-> << >>]

ValidateFileTypeMutantCase(file, type) ==
    IF Len(file.filename) = 0
    THEN HttpException(400, <<"No filename provided">>)
    ELSE IF Suffix(file.filename) \notin SupportedFormats(type)
    THEN HttpException(400, <<"File type is not supported">>)
    ELSE ReturnsTrue

\* FileValidator.validate_file_type
ValidateFileType(file, type) ==
    IF Len(file.filename) = 0
    THEN HttpException(400, <<"No filename provided">>)
    ELSE LET file_ext == Lower(Suffix(file.filename))
         IN  IF file_ext \notin SupportedFormats(type)
             THEN HttpException(400,
                      <<"File type '">> \o file_ext \o <<"' is not supported for ", type>>)
             ELSE ReturnsTrue

FileTooLargeMutantInclusive(file_size, max_size) == file_size >= max_size

\* file_size > max_size
FileTooLarge(file_size, max_size) == file_size > max_size

\* a call of FileValidator.validate_file_type(upload, expected_type)
ValidateFileTypeCall ==
    /\ pc = "fv_start"
    /\ outcome' = ValidateFileType(upload, expected_type)
    /\ pc' = "fv_type_done"
    /\ UNCHANGED <<upload, expected_type, file_pos>>
    /\ UNCHANGED <<samplerVars, videoVars, modelVars, audioVars, batchVars, raised>>
    /\ UNCHANGED <<managerVars, analyzerVars, uploadVars, framesVars, sourceVars>>

\* a call of FileValidator.validate_file_size(upload, expected_type):
\* seek(0, 2), tell(), seek(0), then the comparison with the limit
ValidateFileSizeCall ==
    /\ pc = "fv_start"
    /\ LET end_pos == upload.size
           file_size == end_pos
       IN  outcome' = IF FileTooLarge(file_size, FileLimits(expected_type))
                      THEN HttpException(413, <<"File size exceeds maximum allowed size">>)
                      ELSE ReturnsTrue
    /\ file_pos' = 0
    /\ pc' = "fv_size_done"
    /\ UNCHANGED <<upload, expected_type>>
    /\ UNCHANGED <<samplerVars, videoVars, modelVars, audioVars, batchVars, raised>>
    /\ UNCHANGED <<managerVars, analyzerVars, uploadVars, framesVars, sourceVars>>

InitValidator ==
    /\ pc = "fv_start"
    /\ expected_type \in MediaTypes
    /\ \E name \in UploadNames, size \in UploadSizes(expected_type) :
           /\ upload = [filename |-> name, size |-> size]
           /\ file_pos \in {0, size \div 2, size}
    /\ outcome = None
    /\ total_frames = 0
    /\ fps = 0
    /\ num_frames = 1
    /\ start_time = None
    /\ end_time = None
    /\ start_frame = 0
    /\ end_frame = 0
    /\ frame_indices = << >>
    /\ IdleVideo
    /\ IdleModels
    /\ IdleBatch
    /\ IdleAudio
    /\ IdleManager
    /\ IdleSource
    /\ IdleFrames
    /\ IdleUpload
    /\ IdleAnalyzer

NextValidator ==
    \/ ValidateFileTypeCall
    \/ ValidateFileSizeCall

SpecValidator == InitValidator /\ [][NextValidator]_vars

----------------------------------------------------------------------------
(* ModelManager: load_all_models, the getters and the health check *)

MaxLoads == 3

\* psutil.virtual_memory().percent as reported by get_system_info (0 when
\* psutil fails)
MemoryPercents == {0, 90, 91}

\* sep.join(parts)
RECURSIVE JoinSep(_, _)
JoinSep(sep, parts) ==
    IF Len(parts) = 0 THEN << >>
    ELSE IF Len(parts) = 1 THEN parts[1]
    ELSE parts[1] \o <<sep>> \o JoinSep(sep, Tail(parts))

\* load_all_models: self.moondream_model.load_model() returns ok
LoadMoondream ==
    /\ pc = "ld_idle"
    /\ loads < MaxLoads
    /\ loads' = loads + 1
    /\ \E ok \in BOOLEAN :
           /\ moondream_loaded' = ok
           /\ load_success' = ok
           /\ load_errors' = IF ok THEN << >>
                             ELSE << <<"Failed to load Moondream model">> >>
    /\ pc' = "ld_whisper"
    /\ UNCHANGED <<models_loaded, whisper_loaded, initialization_error, health, got>>
    /\ UNCHANGED <<samplerVars, videoVars, audioVars, batchVars, raised>>
    /\ UNCHANGED <<validatorVars, analyzerVars, uploadVars, framesVars, sourceVars>>

\* load_all_models: self.whisper_model.load_model() returns ok
LoadWhisper ==
    /\ pc = "ld_whisper"
    /\ \E ok \in BOOLEAN :
           /\ whisper_loaded' = ok
           /\ load_success' = (load_success /\ ok)
           /\ load_errors' = IF ok THEN load_errors
                             ELSE Append(load_errors, <<"Failed to load Whisper model">>)
    /\ pc' = "ld_finish"
    /\ UNCHANGED <<models_loaded, moondream_loaded, initialization_error, loads,
                   health, got>>
    /\ UNCHANGED <<samplerVars, videoVars, audioVars, batchVars, raised>>
    /\ UNCHANGED <<validatorVars, analyzerVars, uploadVars, framesVars, sourceVars>>

\* load_all_models: if success: models_loaded = True, else the error message
LoadFinish ==
    /\ pc = "ld_finish"
    /\ IF load_success
       THEN /\ models_loaded' = TRUE
            /\ initialization_error' = initialization_error
       ELSE /\ models_loaded' = models_loaded
            /\ initialization_error' = JoinSep("; ", load_errors)
    /\ pc' = "ld_idle"
    /\ UNCHANGED <<moondream_loaded, whisper_loaded, load_success, load_errors,
                   loads, health, got>>
    /\ UNCHANGED <<samplerVars, videoVars, audioVars, batchVars, raised>>
    /\ UNCHANGED <<validatorVars, analyzerVars, uploadVars, framesVars, sourceVars>>

\* get_moondream_model / get_whisper_model: the model (with its loaded flag)
\* or RuntimeError("Models not loaded")
GetModel(name, loaded) ==
    IF ~models_loaded
    THEN [raised |-> TRUE, error |-> <<"Models not loaded">>, model |-> "",
          loaded |-> FALSE]
    ELSE [raised |-> FALSE, error |-> << >>, model |-> name, loaded |-> loaded]

GetMoondreamModel ==
    /\ pc = "ld_idle"
    /\ got' = <<GetModel("moondream", moondream_loaded)>>
    /\ UNCHANGED <<pc, modelVars, initialization_error, load_success, load_errors,
                   loads, health>>
    /\ UNCHANGED <<samplerVars, videoVars, audioVars, batchVars, raised>>
    /\ UNCHANGED <<validatorVars, analyzerVars, uploadVars, framesVars, sourceVars>>

GetWhisperModel ==
    /\ pc = "ld_idle"
    /\ got' = <<GetModel("whisper", whisper_loaded)>>
    /\ UNCHANGED <<pc, modelVars, initialization_error, load_success, load_errors,
                   loads, health>>
    /\ UNCHANGED <<samplerVars, videoVars, audioVars, batchVars, raised>>
    /\ UNCHANGED <<validatorVars, analyzerVars, uploadVars, framesVars, sourceVars>>

Endpoints ==
    <<"/api/analyze/image", "/api/analyze/video", "/api/analyze/audio",
      "/api/analyze/batch", "/api/health">>

HealthStatusMutantFlag(memory_percent) ==
    IF models_loaded
    THEN (IF memory_percent > 90 THEN "degraded" ELSE "healthy")
    ELSE "unhealthy"

\* ModelManager.health_check: status
HealthStatus(memory_percent) ==
    IF IsReady
    THEN (IF memory_percent > 90 THEN "degraded" ELSE "healthy")
    ELSE "unhealthy"

\* ModelManager.health_check
HealthData(memory_percent) ==
    [status |-> HealthStatus(memory_percent),
     models_loaded |-> models_loaded,
     memory_percent |-> memory_percent,
     available_endpoints |-> IF IsReady THEN Endpoints ELSE << >>]

\* GET /api/health: ResponseFormatter.success_response(health_data)
HealthCheck ==
    /\ pc = "ld_idle"
    /\ \E memory_percent \in MemoryPercents :
           health' = <<[status_code |-> 200, success |-> TRUE,
                        data |-> HealthData(memory_percent)]>>
    /\ UNCHANGED <<pc, modelVars, initialization_error, load_success, load_errors,
                   loads, got>>
    /\ UNCHANGED <<samplerVars, videoVars, audioVars, batchVars, raised>>
    /\ UNCHANGED <<validatorVars, analyzerVars, uploadVars, framesVars, sourceVars>>

\* a freshly constructed ModelManager
InitManager ==
    /\ pc = "ld_idle"
    /\ IdleModels
    /\ IdleManager
    /\ IdleSource
    /\ IdleFrames
    /\ IdleUpload
    /\ IdleAnalyzer
    /\ total_frames = 0
    /\ fps = 0
    /\ num_frames = 1
    /\ start_time = None
    /\ end_time = None
    /\ start_frame = 0
    /\ end_frame = 0
    /\ frame_indices = << >>
    /\ IdleVideo
    /\ IdleBatch
    /\ IdleAudio
    /\ IdleValidator

NextManager ==
    \/ LoadMoondream
    \/ LoadWhisper
    \/ LoadFinish
    \/ GetMoondreamModel
    \/ GetWhisperModel
    \/ HealthCheck

SpecManager == InitManager /\ [][NextManager]_vars

----------------------------------------------------------------------------
(* WorkingAWSAnalyzer.analyze_image: the strategy chain *)

\* what open() and the magic-byte tests make of image_path: the file cannot
\* be read, its bytes are no image, or the format _detect_image_format names
ImageFiles == {"unreadable", "invalid", "jpeg", "png", "gif", "webp"}

\* str(e) of the exceptions a strategy can end with
ErrorMessages == {"AccessDeniedException", "ValidationException", "cannot identify image file"}

multimodal_model == "amazon.nova-pro-v1:0"

SuccessResult(method) ==
    [success |-> TRUE, model_used |-> multimodal_model, method |-> method]

FailureResult(error) ==
    [success |-> FALSE, model_used |-> multimodal_model, error |-> error]

AllFailedErrorsMutantLastFirst(m1, m2, m3) == <<m3, m2, m1>>

\* 'errors': [str(e1), str(e2), str(e3)]
AllFailedErrors(m1, m2, m3) == <<m1, m2, m3>>

AllFailedResult(m1, m2, m3) ==
    [success |-> FALSE, model_used |-> multimodal_model, error |-> m3,
     errors |-> AllFailedErrors(m1, m2, m3)]

\* open, read, _is_valid_image and _detect_image_format
AwsReadImage ==
    /\ pc = "aw_start"
    /\ \E file \in ImageFiles :
           CASE file = "unreadable" ->
                    /\ aws_result' = <<FailureResult("No such file or directory")>>
                    /\ pc' = "aw_done"
                    /\ UNCHANGED image_format
             [] file = "invalid" ->
                    /\ aws_result' = <<FailureResult("Invalid image format")>>
                    /\ pc' = "aw_done"
                    /\ UNCHANGED image_format
             [] OTHER ->
                    /\ image_format' = <<file>>
                    /\ pc' = "aw_invoke_model"
                    /\ UNCHANGED aws_result
    /\ UNCHANGED <<e1, e2, attempt_log>>
    /\ UNCHANGED <<samplerVars, videoVars, modelVars, audioVars, batchVars, raised>>
    /\ UNCHANGED <<validatorVars, managerVars, uploadVars, framesVars, sourceVars>>

\* Method 1: bedrock_client.invoke_model
AwsInvokeModel ==
    /\ pc = "aw_invoke_model"
    /\ attempt_log' = Append(attempt_log, "invoke_model")
    /\ \/ /\ aws_result' = <<SuccessResult("invoke_model")>>
          /\ pc' = "aw_done"
          /\ UNCHANGED e1
       \/ /\ \E m \in ErrorMessages : e1' = <<m>>
          /\ pc' = "aw_converse"
          /\ UNCHANGED aws_result
    /\ UNCHANGED <<image_format, e2>>
    /\ UNCHANGED <<samplerVars, videoVars, modelVars, audioVars, batchVars, raised>>
    /\ UNCHANGED <<validatorVars, managerVars, uploadVars, framesVars, sourceVars>>

\* Method 2: bedrock_client.converse
AwsConverse ==
    /\ pc = "aw_converse"
    /\ attempt_log' = Append(attempt_log, "converse")
    /\ \/ /\ aws_result' = <<SuccessResult("converse")>>
          /\ pc' = "aw_done"
          /\ UNCHANGED e2
       \/ /\ \E m \in ErrorMessages : e2' = <<m>>
          /\ pc' = "aw_converted_jpeg"
          /\ UNCHANGED aws_result
    /\ UNCHANGED <<image_format, e1>>
    /\ UNCHANGED <<samplerVars, videoVars, modelVars, audioVars, batchVars, raised>>
    /\ UNCHANGED <<validatorVars, managerVars, uploadVars, framesVars, sourceVars>>

\* Method 3: conversion to JPEG, then bedrock_client.converse
AwsConvertedJpeg ==
    /\ pc = "aw_converted_jpeg"
    /\ attempt_log' = Append(attempt_log, "converted_jpeg")
    /\ \/ aws_result' = <<SuccessResult("converted_jpeg")>>
       \/ \E m \in ErrorMessages :
              aws_result' = <<AllFailedResult(e1[1], e2[1], m)>>
    /\ pc' = "aw_done"
    /\ UNCHANGED <<image_format, e1, e2>>
    /\ UNCHANGED <<samplerVars, videoVars, modelVars, audioVars, batchVars, raised>>
    /\ UNCHANGED <<validatorVars, managerVars, uploadVars, framesVars, sourceVars>>

InitAnalyzer ==
    /\ pc = "aw_start"
    /\ IdleSampler
    /\ IdleVideo
    /\ IdleModels
    /\ IdleBatch
    /\ IdleAudio
    /\ IdleValidator
    /\ IdleManager
    /\ IdleSource
    /\ IdleFrames
    /\ IdleUpload
    /\ IdleAnalyzer

NextAnalyzer ==
    \/ AwsReadImage
    \/ AwsInvokeModel
    \/ AwsConverse
    \/ AwsConvertedJpeg

SpecAnalyzer == InitAnalyzer /\ [][NextAnalyzer]_vars

----------------------------------------------------------------------------
(* VideoService.analyze_video and AudioService.transcribe_audio: the upload's
   temporary file.  expected_type names the service: "video" is
   VideoService.analyze_video, "audio" is AudioService.transcribe_audio *)

UploadServices == {"video", "audio"}

\* the MIME types of an upload, tokenised at '/'
ContentTypes ==
    {<< >>, <<"video", "/", "mp4">>, <<"audio", "/", "mpeg">>, <<"image", "/", "png">>}

\* the names tempfile.NamedTemporaryFile can choose from
TempNames == {"tmp_a", "tmp_b"}

\* an exception that is no HTTPException
PyException(detail) == [raised |-> TRUE, status_code |-> 0, detail |-> detail]

\* FileValidator.validate_content_type
ValidateContentType(ctype, type) ==
    IF Len(ctype) = 0 THEN ReturnsTrue
    ELSE LET main_type == ctype[1]
         IN  IF type \in MediaTypes /\ main_type # type
             THEN HttpException(400, <<"Content type does not match expected type">>)
             ELSE ReturnsTrue

\* FileValidator.validate_upload: the first check that raises ends the call
ValidateUpload(file, ctype, type) ==
    LET t == ValidateFileType(file, type)
    IN  IF t.raised THEN t
        ELSE IF FileTooLarge(file.size, FileLimits(type))
        THEN HttpException(413, <<"File size exceeds maximum allowed size">>)
        ELSE ValidateContentType(ctype, type)

CleanupTempFileMutantKeep(path, dir) == dir

\* finally: if temp_path and os.path.exists(temp_path): os.unlink(temp_path)
\* (os.unlink of the file the call itself created is taken to succeed)
CleanupTempFile(path, dir) ==
    IF path # None /\ path[1] \in dir THEN dir \ {path[1]} ELSE dir

\* FileValidator.validate_upload(file, "video" / "audio")
UploadValidate ==
    /\ pc = "up_start"
    /\ LET v == ValidateUpload(upload, upload_content_type, expected_type)
       IN  /\ pending' = IF v.raised THEN <<v>> ELSE None
           /\ pc' = IF v.raised THEN "up_finally" ELSE "up_save"
           \* validate_file_size leaves the read position at 0
           /\ file_pos' = IF ValidateFileType(upload, expected_type).raised
                          THEN file_pos ELSE 0
    /\ UNCHANGED <<upload_content_type, temp_path, tempdir, created, returned>>
    /\ UNCHANGED <<upload, expected_type, outcome>>
    /\ UNCHANGED <<samplerVars, videoVars, modelVars, audioVars, batchVars, raised>>
    /\ UNCHANGED <<managerVars, analyzerVars, framesVars, sourceVars>>

\* with tempfile.NamedTemporaryFile(delete=False, ...) as temp_file: the file
\* exists and temp_path names it before the upload is read and written
UploadSave ==
    /\ pc = "up_save"
    /\ \E name \in TempNames \ tempdir :
           /\ temp_path' = <<name>>
           /\ tempdir' = tempdir \cup {name}
           /\ created' = created \cup {name}
    /\ \/ /\ file_pos' = upload.size
          /\ pc' = "up_extract"
          /\ UNCHANGED pending
       \/ \* file.read() or temp_file.write() raises
          /\ pending' = <<PyException(<<"OSError">>)>>
          /\ pc' = "up_finally"
          /\ UNCHANGED file_pos
    /\ UNCHANGED <<upload_content_type, returned>>
    /\ UNCHANGED <<upload, expected_type, outcome>>
    /\ UNCHANGED <<samplerVars, videoVars, modelVars, audioVars, batchVars, raised>>
    /\ UNCHANGED <<managerVars, analyzerVars, framesVars, sourceVars>>

\* _get_video_info and _extract_frames; _estimate_audio_duration, which
\* catches its own exceptions
UploadExtract ==
    /\ pc = "up_extract"
    /\ \/ /\ pc' = "up_model"
          /\ UNCHANGED pending
       \/ /\ expected_type = "video"
          /\ pending' = <<PyException(<<"cv2.error">>)>>
          /\ pc' = "up_finally"
    /\ UNCHANGED <<upload_content_type, temp_path, tempdir, created, returned>>
    /\ UNCHANGED <<samplerVars, videoVars, modelVars, audioVars, batchVars, raised>>
    /\ UNCHANGED <<validatorVars, managerVars, analyzerVars, framesVars, sourceVars>>

\* model_manager.get_moondream_model() / get_whisper_model()
UploadGetModel ==
    /\ pc = "up_model"
    /\ LET g == IF expected_type = "video"
                THEN GetModel("moondream", moondream_loaded)
                ELSE GetModel("whisper", whisper_loaded)
       IN  /\ pending' = IF g.raised THEN <<PyException(g.error)>> ELSE None
           /\ pc' = IF g.raised THEN "up_finally" ELSE "up_run"
    /\ UNCHANGED <<upload_content_type, temp_path, tempdir, created, returned>>
    /\ UNCHANGED <<samplerVars, videoVars, modelVars, audioVars, batchVars, raised>>
    /\ UNCHANGED <<validatorVars, managerVars, analyzerVars, framesVars, sourceVars>>

\* the analysis and the return: a frame's exception is caught in the loop of
\* analyze_video, an exception of whisper_model.transcribe_audio propagates
UploadRun ==
    /\ pc = "up_run"
    /\ \E failed \in BOOLEAN :
           IF failed /\ expected_type = "audio"
           THEN /\ pending' = <<PyException(<<"Transcription failed">>)>>
                /\ UNCHANGED returned
           ELSE /\ returned' = <<[service |-> expected_type, frame_failed |-> failed]>>
                /\ UNCHANGED pending
    /\ pc' = "up_finally"
    /\ UNCHANGED <<upload_content_type, temp_path, tempdir, created>>
    /\ UNCHANGED <<samplerVars, videoVars, modelVars, audioVars, batchVars, raised>>
    /\ UNCHANGED <<validatorVars, managerVars, analyzerVars, framesVars, sourceVars>>

\* finally: the temporary file is removed and the upload rewound; the
\* exception, if any, is re-raised
UploadFinally ==
    /\ pc = "up_finally"
    /\ tempdir' = CleanupTempFile(temp_path, tempdir)
    /\ file_pos' = 0
    /\ pc' = "up_done"
    /\ UNCHANGED <<upload_content_type, temp_path, created, pending, returned>>
    /\ UNCHANGED <<upload, expected_type, outcome>>
    /\ UNCHANGED <<samplerVars, videoVars, modelVars, audioVars, batchVars, raised>>
    /\ UNCHANGED <<managerVars, analyzerVars, framesVars, sourceVars>>

\* one call of either service on an upload, with the models loaded or not
InitUpload ==
    /\ pc = "up_start"
    /\ expected_type \in UploadServices
    /\ \E name \in UploadNames, size \in UploadSizes(expected_type) :
           upload = [filename |-> name, size |-> size]
    /\ file_pos = 0
    /\ outcome = None
    /\ upload_content_type \in ContentTypes
    /\ temp_path = None
    /\ tempdir \in {{}, {"tmp_a"}}
    /\ created = {}
    /\ pending = None
    /\ returned = None
    /\ models_loaded \in BOOLEAN
    /\ moondream_loaded = models_loaded
    /\ whisper_loaded = models_loaded
    /\ IdleSampler
    /\ IdleVideo
    /\ IdleBatch
    /\ IdleAudio
    /\ IdleManager
    /\ IdleSource
    /\ IdleFrames
    /\ IdleAnalyzer

NextUpload ==
    \/ UploadValidate
    \/ UploadSave
    \/ UploadExtract
    \/ UploadGetModel
    \/ UploadRun
    \/ UploadFinally

SpecUpload == InitUpload /\ [][NextUpload]_vars

----------------------------------------------------------------------------
(* MultimodalAnalysisService._analyze_video_frames: the capture and the
   temporary image of every frame.  The window and the indices are computed
   by AnalyzeVideoFramesSample *)

\* the windows of a call: none, or start and end among -0.5 s, 0 s and the
\* largest time
FramesTimeSet == {None} \cup {<<t>> : t \in {-1, 0, MaxTime}}

\* what one iteration of the frame loop can end with: cap.read() gives no
\* frame; analyze_image returns success, or no success; an exception is raised
\* after the temporary image was created (cv2.imwrite, the result's keys)
FrameOutcomes == {"no_frame", "analyzed", "not_analyzed", "raised"}

\* the elements of a list
ListItems(s) == {s[i] : i \in 1..Len(s)}

\* cap = cv2.VideoCapture(video_path); if not cap.isOpened(): return
FramesOpen ==
    /\ pc = "fr_open"
    /\ \E opened \in BOOLEAN :
           IF opened
           THEN /\ cap_state' = "open"
                /\ pc' = "mm_start"
           ELSE /\ cap_state' = cap_state
                /\ pc' = "fr_done"
    /\ UNCHANGED <<temp_files, tmp_images, frame_pos, mm_analyses, fr_pending>>
    /\ UNCHANGED <<samplerVars, videoVars, modelVars, audioVars, batchVars, raised>>
    /\ UNCHANGED <<validatorVars, managerVars, analyzerVars, uploadVars, sourceVars>>

\* one iteration of the loop over frame_indices, inside the try block
FramesIterate ==
    /\ pc = "mm_sampled"
    /\ cap_state = "open"
    /\ frame_pos < Len(frame_indices)
    /\ frame_pos' = frame_pos + 1
    /\ \E o \in FrameOutcomes :
           /\ IF o = "no_frame"
              THEN UNCHANGED <<temp_files, tmp_images>>
              ELSE \* tempfile.NamedTemporaryFile(suffix='.jpg', delete=False)
                   LET temp_path_i == frame_pos + 1
                   IN  /\ temp_files' = Append(temp_files, temp_path_i)
                       /\ tmp_images' = tmp_images \cup {temp_path_i}
           /\ mm_analyses' = IF o = "analyzed"
                             THEN Append(mm_analyses, frame_indices[frame_pos + 1])
                             ELSE mm_analyses
           /\ fr_pending' = (o = "raised")
           /\ pc' = IF o = "raised" THEN "fr_finally" ELSE pc
    /\ UNCHANGED cap_state
    /\ UNCHANGED <<samplerVars, videoVars, modelVars, audioVars, batchVars, raised>>
    /\ UNCHANGED <<validatorVars, managerVars, analyzerVars, uploadVars, sourceVars>>

\* the loop has run through frame_indices
FramesLoopEnd ==
    /\ pc = "mm_sampled"
    /\ cap_state = "open"
    /\ frame_pos = Len(frame_indices)
    /\ pc' = "fr_finally"
    /\ UNCHANGED framesVars
    /\ UNCHANGED <<samplerVars, videoVars, modelVars, audioVars, batchVars, raised>>
    /\ UNCHANGED <<validatorVars, managerVars, analyzerVars, uploadVars, sourceVars>>

\* finally: cap.release() and os.unlink of every entry of temp_files; then
\* the exception propagates, or the summary is made and the result returned
FramesFinally ==
    /\ pc = "fr_finally"
    /\ cap_state' = "released"
    /\ tmp_images' = tmp_images \ ListItems(temp_files)
    /\ pc' = IF fr_pending THEN "fr_raised" ELSE "fr_done"
    /\ UNCHANGED <<temp_files, frame_pos, mm_analyses, fr_pending>>
    /\ UNCHANGED <<samplerVars, videoVars, modelVars, audioVars, batchVars, raised>>
    /\ UNCHANGED <<validatorVars, managerVars, analyzerVars, uploadVars, sourceVars>>

\* one call of _analyze_video_frames
InitFrames ==
    /\ pc = "fr_open"
    /\ total_frames \in 0..MaxVideoFrames
    /\ fps \in VideoFpsSet
    /\ num_frames \in 1..MaxVideoNum
    /\ start_time \in FramesTimeSet
    /\ end_time \in FramesTimeSet
    /\ start_frame = 0
    /\ end_frame = 0
    /\ frame_indices = << >>
    /\ IdleVideo
    /\ IdleModels
    /\ IdleBatch
    /\ IdleAudio
    /\ IdleValidator
    /\ IdleManager
    /\ IdleSource
    /\ IdleFrames
    /\ IdleUpload
    /\ IdleAnalyzer

NextFrames ==
    \/ FramesOpen
    \/ AnalyzeVideoFramesSample
    \/ FramesIterate
    \/ FramesLoopEnd
    \/ FramesFinally

SpecFrames == InitFrames /\ [][NextFrames]_vars

----------------------------------------------------------------------------
(* MultimodalAnalysisService: the source file of analyze_image,
   analyze_video, transcribe_audio and analyze_audio_comprehensive *)

SourceMethods ==
    {"analyze_image", "analyze_video", "transcribe_audio", "analyze_audio_comprehensive"}

\* the arguments: the local path "src", and URLs by the scheme urlparse finds
SourcePaths == {[scheme |-> sc, file |-> "src"] : sc \in {"", "http", "https", "ftp"}}

\* _is_http_url
IsHttpUrl(p) == p.scheme \in {"http", "https"}

\* os.path.exists(path_or_url) of a path that is no HTTP URL
LocalExists(p, existing) == p.scheme = "" /\ p.file \in existing

\* the name tempfile.NamedTemporaryFile gives the download
DownloadName == "download"

TempFilePathMutantAlways(path, is_temp) == <<path>>

\* if is_temp: temp_file_path = local_path
TempFilePath(path, is_temp) == IF is_temp THEN <<path>> ELSE None

SourceFailure(error) == [success |-> FALSE, error |-> error]
SourceSuccess == [success |-> TRUE, error |-> ""]

\* without its analyzer the method answers before the try block: by the
\* fallback service, which deletes nothing, or by a failure
SourceEnter ==
    /\ pc = "sr_start"
    /\ IF analyzer_available
       THEN /\ pc' = "sr_resolve"
            /\ UNCHANGED src_result
       ELSE /\ pc' = "sr_done"
            /\ src_result' = IF src_method = "transcribe_audio"
                             THEN <<SourceFailure("AWS Analyzer not available")>>
                             ELSE <<SourceSuccess>>
    /\ UNCHANGED <<src_method, path_or_url, analyzer_available, disk, downloaded,
                   local_path, temp_file_path>>
    /\ UNCHANGED <<samplerVars, videoVars, modelVars, audioVars, batchVars, raised>>
    /\ UNCHANGED <<validatorVars, managerVars, analyzerVars, uploadVars, framesVars>>

\* _resolve_file_path and, for a URL, _download_file_from_url: the temporary
\* file is created, then the download succeeds, or fails and the except
\* block unlinks the file before it raises
SourceResolve ==
    /\ pc = "sr_resolve"
    /\ IF IsHttpUrl(path_or_url)
       THEN /\ downloaded' = downloaded \cup {DownloadName}
            /\ \/ /\ disk' = disk \cup {DownloadName}
                  /\ local_path' = <<DownloadName>>
                  /\ temp_file_path' = TempFilePath(DownloadName, TRUE)
                  /\ pc' = "sr_analyze"
                  /\ UNCHANGED src_result
               \/ /\ disk' = (disk \cup {DownloadName}) \ {DownloadName}
                  /\ src_result' = <<SourceFailure("Failed to download file from URL")>>
                  /\ pc' = "sr_finally"
                  /\ UNCHANGED <<local_path, temp_file_path>>
       ELSE /\ IF LocalExists(path_or_url, disk)
               THEN /\ local_path' = <<path_or_url.file>>
                    /\ temp_file_path' = TempFilePath(path_or_url.file, FALSE)
                    /\ pc' = "sr_analyze"
                    /\ UNCHANGED src_result
               ELSE /\ src_result' = <<SourceFailure("File not found")>>
                    /\ pc' = "sr_finally"
                    /\ UNCHANGED <<local_path, temp_file_path>>
            /\ UNCHANGED <<disk, downloaded>>
    /\ UNCHANGED <<src_method, path_or_url, analyzer_available>>
    /\ UNCHANGED <<samplerVars, videoVars, modelVars, audioVars, batchVars, raised>>
    /\ UNCHANGED <<validatorVars, managerVars, analyzerVars, uploadVars, framesVars>>

\* run_in_executor of the analysis on local_path: it returns, or raises and
\* the except block makes the failure result (for analyze_image, after an AWS
\* error, the result of the fallback service)
SourceAnalyze ==
    /\ pc = "sr_analyze"
    /\ \E r \in {SourceSuccess, SourceFailure("analysis error")} : src_result' = <<r>>
    /\ pc' = "sr_finally"
    /\ UNCHANGED <<src_method, path_or_url, analyzer_available, disk, downloaded,
                   local_path, temp_file_path>>
    /\ UNCHANGED <<samplerVars, videoVars, modelVars, audioVars, batchVars, raised>>
    /\ UNCHANGED <<validatorVars, managerVars, analyzerVars, uploadVars, framesVars>>

\* finally: if temp_file_path and os.path.exists(temp_file_path): os.unlink
SourceFinally ==
    /\ pc = "sr_finally"
    /\ disk' = CleanupTempFile(temp_file_path, disk)
    /\ pc' = "sr_done"
    /\ UNCHANGED <<src_method, path_or_url, analyzer_available, downloaded,
                   local_path, temp_file_path, src_result>>
    /\ UNCHANGED <<samplerVars, videoVars, modelVars, audioVars, batchVars, raised>>
    /\ UNCHANGED <<validatorVars, managerVars, analyzerVars, uploadVars, framesVars>>

\* one call of one of the four methods; the local file exists or not
InitSource ==
    /\ pc = "sr_start"
    /\ src_method \in SourceMethods
    /\ path_or_url \in SourcePaths
    /\ analyzer_available \in BOOLEAN
    /\ disk \in {{}, {"src"}, {"src", "other"}}
    /\ downloaded = {}
    /\ local_path = None
    /\ temp_file_path = None
    /\ src_result = None
    /\ IdleSampler
    /\ IdleVideo
    /\ IdleModels
    /\ IdleBatch
    /\ IdleAudio
    /\ IdleValidator
    /\ IdleManager
    /\ IdleFrames
    /\ IdleUpload
    /\ IdleAnalyzer

NextSource ==
    \/ SourceEnter
    \/ SourceResolve
    \/ SourceAnalyze
    \/ SourceFinally

SpecSource == InitSource /\ [][NextSource]_vars

----------------------------------------------------------------------------
(* Properties of analyze_batch *)

BatchPc == pc \in {"b_start", "b_loop", "b_await", "b_done"}
VideoPc == pc \in {"v_start", "v_get_model", "v_loop", "v_call", "v_raised", "v_done"}

\* C4: for every accepted request the response satisfies successful + failed
\* = total_files = len(results) = number of submitted files, and every result
\* entry is either a success entry or a failure entry.
C4_BatchCounts ==
    (pc = "b_done" /\ response.status = 200) =>
        /\ response.successful + response.failed = response.total_files
        /\ response.total_files = Len(response.results)
        /\ Len(response.results) = Len(files)
        /\ \A i \in 1..Len(response.results) :
               LET r == response.results[i]
               IN  IF r.success
                   THEN "result" \in DOMAIN r /\ "error" \notin DOMAIN r
                   ELSE "error" \in DOMAIN r /\ "result" \notin DOMAIN r

C4_Witness ==
    /\ pc = "b_done"
    /\ response.status = 200
    /\ response.total_files = MaxBatchFiles
    /\ response.successful >= 2
    /\ response.failed >= 2

\* C5: the results list is in input order for any pattern of per-item
\* failures: the entry at position i has file_index = i and the filename of
\* the i-th submitted file.
C5_BatchOrder ==
    /\ pc \in {"b_loop", "b_await", "b_done"} =>
           \A i \in 1..Len(results) :
               /\ results[i].file_index = i - 1
               /\ results[i].filename = files[i].filename
    /\ (pc = "b_done" /\ response.status = 200) =>
           \A i \in 1..Len(response.results) :
               /\ response.results[i].file_index = i - 1
               /\ response.results[i].filename = files[i].filename

\* items 1 and 3 (0-indexed) fail, items 0 and 2 succeed
C5_Witness ==
    /\ pc = "b_done"
    /\ response.status = 200
    /\ Len(response.results) = 4
    /\ response.results[1].success
    /\ ~response.results[2].success
    /\ response.results[3].success
    /\ ~response.results[4].success

\* C6: an exception raised by the analysis of one item (a batch file, a video
\* frame) is recorded as that item's failure carrying str(exception), every
\* later item is still analysed, and the call returns normally, also when
\* every item fails.
C6_FailureIsolation ==
    /\ pc \in {"b_loop", "b_await", "b_done"} =>
           /\ Len(results) = idx
           /\ Len(raised) = idx
           /\ \A i \in 1..Len(results) :
                  /\ results[i].success <=> raised[i] = << >>
                  /\ ~results[i].success => results[i].error = raised[i]
                  /\ ~DetermineFileType(files[i]).raised =>
                         \E k \in 1..Len(calls) : calls[k] = i - 1
    /\ pc \in {"b_loop", "b_await"} => response.status = 0
    /\ pc = "b_done" => response.status \in {200, 400, 503}
    /\ (pc = "b_loop" /\ idx < Len(files)) =>
           ENABLED (BatchItemStart \/ BatchItemFailure)
    /\ pc = "b_await" => ENABLED (BatchItemSuccess \/ BatchItemFailure)
    /\ (pc = "b_loop" /\ idx = Len(files)) => ENABLED BatchFinish
    /\ (pc = "b_done" /\ response.status # 200) => (results = << >> /\ raised = << >>)
    /\ (pc = "b_done" /\ response.status = 200) => Len(results) = Len(files)
    /\ pc \in {"v_loop", "v_call", "v_done"} =>
           /\ Len(frame_analyses) = Len(raised)
           /\ Len(frame_analyses) <= Len(frames_data)
           /\ \A i \in 1..Len(frame_analyses) :
                  /\ frame_analyses[i].frame_number = frames_data[i].frame_number
                  /\ frame_ok[i] <=> raised[i] = << >>
                  /\ ~frame_ok[i] =>
                         frame_analyses[i].description
                             = <<"Analysis failed: ">> \o raised[i]
    /\ (pc = "v_loop" /\ Len(frame_analyses) < Len(frames_data)) =>
           ENABLED VideoFrameStart
    /\ pc = "v_call" => ENABLED (VideoFrameSuccess \/ VideoFrameFailure)
    /\ (pc = "v_loop" /\ Len(frame_analyses) = Len(frames_data)) => ENABLED VideoFinish
    /\ pc = "v_raised" => raised = << >>
    /\ pc = "v_done" => Len(frame_analyses) = Len(frames_data)

\* a frame's analysis raises, the next frame is analysed and succeeds
C6_Witness ==
    /\ pc = "v_done"
    /\ Len(frame_analyses) >= 3
    /\ ~frame_ok[1]
    /\ frame_ok[2]
    /\ ~frame_ok[3]

\* C7 as stated: a request with more than 10 files is rejected with HTTP 400
\* before any file is analysed, and a request with exactly 10 files is
\* accepted and all 10 are processed.
C7_BatchCapAsStated ==
    /\ (BatchPc /\ Len(files) > MaxBatchFiles) =>
           /\ pc \notin {"b_loop", "b_await"}
           /\ results = << >>
           /\ calls = << >>
           /\ pc = "b_done" => response.status = 400
    /\ (pc = "b_done" /\ Len(files) = MaxBatchFiles) =>
           /\ response.status = 200
           /\ Len(response.results) = MaxBatchFiles

\* C7 amended: when the models are ready, a request with more than 10 files
\* is rejected with HTTP 400 before any file is analysed and a request with
\* exactly 10 files is accepted and all 10 are processed; when the models are
\* not ready every request is rejected with HTTP 503 before any file is
\* analysed.
C7_BatchCap ==
    /\ (BatchPc /\ (Len(files) > MaxBatchFiles \/ ~IsReady)) =>
           /\ pc \notin {"b_loop", "b_await"}
           /\ results = << >>
           /\ calls = << >>
           /\ pc = "b_done" => response.status = (IF IsReady THEN 400 ELSE 503)
    /\ (pc = "b_done" /\ Len(files) = MaxBatchFiles /\ IsReady) =>
           /\ response.status = 200
           /\ Len(response.results) = MaxBatchFiles
           /\ \A i \in 0..(MaxBatchFiles - 1) :
                  \/ DetermineFileType(files[i + 1]).raised
                  \/ \E k \in 1..Len(calls) : calls[k] = i

C7_Witness ==
    /\ pc = "b_done"
    /\ IsReady
    /\ Len(files) = MaxBatchFiles + 1
    /\ response.status = 400

----------------------------------------------------------------------------
(* Properties of the video summary *)

SuccessPositions == {i \in 1..Len(frame_ok) : frame_ok[i]}

\* C8: whenever no frame analysis succeeded, the video summary is exactly the
\* literal "No frames were successfully analyzed." (no text of failed frames).
C8_ZeroSuccessSummary ==
    (pc = "v_done" /\ SuccessPositions = {}) =>
        summary = <<"No frames were successfully analyzed.">>

\* C9: whenever exactly one frame analysis succeeded, whatever the number of
\* failed frames, the summary is "This video shows: " followed by that
\* frame's description (stated here for a non-empty description).
C9_SingleSuccessSummary ==
    (pc = "v_done" /\ Cardinality(SuccessPositions) = 1) =>
        \A i \in SuccessPositions :
            Len(frame_analyses[i].description) > 0 =>
                summary = <<"This video shows: ">> \o frame_analyses[i].description

\* the clause "At {timestamp}s: {description}" of entry i of frame_analyses
Clause(i) ==
    <<"At ">> \o Fmt1(frame_analyses[i].timestamp) \o <<"s: ">>
        \o frame_analyses[i].description

\* the clauses of the successfully analysed frames, in frame order; those of
\* frames with an empty description are kept or left out
ExpectedClauses(keepEmpty) ==
    Keep([i \in 1..Len(frame_analyses) |-> Clause(i)],
         [i \in 1..Len(frame_analyses) |->
             frame_ok[i] /\ (keepEmpty \/ Len(frame_analyses[i].description) > 0)])

\* C10: with several successes the summary is made of one clause
\* "At {timestamp}s: {description}" per successfully analysed frame, in frame
\* order, each with the timestamp of the frame that produced the description,
\* also when some frame has an empty description (stated here for the runs in
\* which every frame analysis succeeded and at least two descriptions are
\* non-empty; the fixed opening sentence may precede the clauses).
C10_SeveralSuccessSummary ==
    (/\ pc = "v_done"
     /\ \A i \in 1..Len(frame_ok) : frame_ok[i]
     /\ Cardinality({i \in 1..Len(frame_analyses) :
                        Len(frame_analyses[i].description) > 0}) >= 2) =>
        \E keepEmpty \in BOOLEAN :
            \/ summary = Join(ExpectedClauses(keepEmpty))
            \/ summary = Join(<< <<"This video contains the following scenes:">> >>
                              \o ExpectedClauses(keepEmpty))

----------------------------------------------------------------------------
(* Properties of the processing loops *)

\* C15: a sampled frame whose read fails is reported as a per-item failure:
\* after video analysis the number of per-frame result entries (successes
\* plus failures) equals the number of sampled indices (stated here for a
\* video of at least num_frames frames, whose sampled indices are distinct
\* frames of the video).
C15_EntryPerSampledIndex ==
    (pc = "v_done" /\ total_frames >= num_frames) =>
        Len(frame_analyses) = Len(frame_indices)

\* the file indices below n whose type _determine_file_type can determine
Determinable(n) ==
    {i \in 0..(n - 1) : ~DetermineFileType(files[i + 1]).raised}

\* C16: within one batch (the files of analyze_batch, the frames of
\* VideoService.analyze_video) the items are analysed one at a time, in input
\* order and each exactly once: the analysis of an item begins only after
\* the analysis of every earlier item has returned or raised, and for as long
\* as an analysis is pending no later item is analysed and no batch result
\* (response, summary) is produced.
C16_Sequential ==
    /\ inflight = None \/ Len(inflight) = 1
    /\ pc \in {"b_start", "v_start", "v_get_model", "v_raised"} =>
           (inflight = None /\ calls = << >>)
    /\ pc \in {"b_loop", "b_await", "b_done"} =>
           /\ StrictlyIncreasing(calls)
           /\ (pc = "b_await") <=> (inflight # None)
           /\ inflight # None =>
                  /\ inflight[1] = idx
                  /\ calls[Len(calls)] = idx
                  /\ Len(results) = idx
                  /\ response.status = 0
                  /\ {calls[k] : k \in 1..Len(calls)} = Determinable(idx + 1)
           /\ inflight = None =>
                  /\ {calls[k] : k \in 1..Len(calls)} = Determinable(idx)
                  /\ Len(results) = idx
           /\ (pc = "b_done" /\ response.status = 200) => idx = Len(files)
    /\ pc \in {"v_loop", "v_call", "v_done"} =>
           /\ calls = [k \in 1..Len(calls) |-> k - 1]
           /\ (pc = "v_call") <=> (inflight # None)
           /\ inflight # None =>
                  /\ inflight[1] = Len(frame_analyses)
                  /\ Len(calls) = Len(frame_analyses) + 1
                  /\ summary = None
           /\ inflight = None => Len(calls) = Len(frame_analyses)
           /\ pc = "v_done" => Len(calls) = Len(frames_data)

\* the fifth file is being analysed after two analyses returned or raised and
\* two files were failed without an analysis
C16_Witness ==
    /\ pc = "b_await"
    /\ inflight = <<4>>
    /\ calls = <<0, 1, 4>>
    /\ Len(results) = 4

----------------------------------------------------------------------------
(* Properties of the samplers *)

\* the range the sampler draws from: [start_frame, end_frame) for
\* _analyze_video_frames, the whole video [0, total_frames) for _extract_frames
RangeStart == IF pc = "vs_sampled" THEN 0 ELSE start_frame
RangeSize == IF pc = "vs_sampled" THEN total_frames ELSE end_frame - start_frame

\* C1: for total_frames >= 1 and num_frames in 1..20, with or without a
\* window, the frame_indices list of _analyze_video_frames has exactly
\* min(num_frames, rangeSize) elements, each in [start_frame, end_frame),
\* and is strictly increasing (hence duplicate-free).
C1_SamplerCoverage ==
    (pc = "mm_sampled" /\ total_frames >= 1) =>
        /\ Len(frame_indices) = Min2(num_frames, end_frame - start_frame)
        /\ \A i \in 1..Len(frame_indices) :
               start_frame <= frame_indices[i] /\ frame_indices[i] < end_frame
        /\ StrictlyIncreasing(frame_indices)
        /\ NoDuplicates(frame_indices)

C1_Witness ==
    /\ pc = "mm_sampled"
    /\ HasWindow
    /\ total_frames >= 1
    /\ start_frame > 0
    /\ num_frames > 1
    /\ end_frame - start_frame > num_frames
    /\ end_frame < total_frames

\* C2: in _extract_frames, when 1 <= total_frames <= num_frames the index
\* list is every frame index 0..total_frames-1 exactly once, and in every
\* case the index list is duplicate-free.
C2_ExtractNoDuplicates ==
    (pc = "vs_sampled" /\ total_frames >= 1) =>
        /\ total_frames <= num_frames =>
               frame_indices = RangeList(0, total_frames)
        /\ NoDuplicates(frame_indices)

\* C3: when rangeSize >= num_frames both samplers return exactly
\* start + floor(i * rangeSize / num_frames) for i = 0..num_frames-1; 300
\* frames, 5 requested, no window gives 0, 60, 120, 180, 240 (at 30 fps the
\* timestamps 0, 2, 4, 6, 8 s); at rangeSize = num_frames the result is every
\* index of the range.
C3_EvenlySpaced ==
    (pc \in {"mm_sampled", "vs_sampled"} /\ RangeSize >= num_frames) =>
        /\ Len(frame_indices) = num_frames
        /\ \A i \in 1..num_frames :
               frame_indices[i] = RangeStart + ((i - 1) * RangeSize) \div num_frames
        /\ (total_frames = 300 /\ num_frames = 5 /\ ~HasWindow) =>
               /\ frame_indices = <<0, 60, 120, 180, 240>>
               /\ fps = 30 =>
                      [i \in 1..5 |-> Timestamp(frame_indices[i], fps)]
                          = << <<0, 1>>, <<2, 1>>, <<4, 1>>, <<6, 1>>, <<8, 1>> >>
        /\ RangeSize = num_frames =>
               \A i \in 1..num_frames : frame_indices[i] = RangeStart + i - 1

C3_Witness ==
    /\ pc = "vs_sampled"
    /\ total_frames = 300
    /\ num_frames = 5
    /\ fps = 30
    /\ frame_indices = <<0, 60, 120, 180, 240>>

\* C11: when total_frames = 0 the sampler yields an empty index list (no
\* frame read is attempted) and the call does not raise, for both samplers
\* and with or without a window (stated here for a positive frame rate).
C11_EmptyVideo ==
    (total_frames = 0 /\ fps > 0) =>
        /\ pc # "mm_raised"
        /\ pc \in {"mm_sampled", "vs_sampled"} => frame_indices = << >>

\* the value max(0, min(raw, total_frames - 1)) a raw start index is clamped to
ClampedStart(raw) ==
    IF raw < 0 THEN 0
    ELSE IF raw > total_frames - 1 THEN total_frames - 1
    ELSE raw

\* C12: for total_frames >= 1, a window with end_time <= start_time (both
\* given) still yields an index list with at least one element, namely the
\* clamped start_frame.
C12_DegenerateWindow ==
    (/\ pc = "mm_sampled"
     /\ total_frames >= 1
     /\ HasWindow
     /\ end_time[1] <= start_time[1]) =>
        /\ Len(frame_indices) >= 1
        /\ frame_indices[1] = start_frame
        /\ start_frame = ClampedStart(IntDiv(start_time[1] * fps, TimeDen))
        /\ \A i \in 1..Len(frame_indices) : frame_indices[i] = start_frame

C12_Witness ==
    /\ pc = "mm_sampled"
    /\ total_frames >= 3
    /\ num_frames >= 2
    /\ HasWindow
    /\ end_time[1] < start_time[1]
    /\ frame_indices = <<start_frame>>
    /\ start_frame = total_frames - 1

\* k is a / b cut toward zero (b > 0)
IsTruncation(k, a, b) ==
    IF a >= 0
    THEN k * b <= a /\ a < (k + 1) * b
    ELSE k * b >= a /\ a > (k - 1) * b

\* the integer a / b is cut to (b > 0)
TruncationOf(a, b) ==
    LET n == IF a >= 0 THEN a ELSE -a
    IN  CHOOSE k \in (-n)..n : IsTruncation(k, a, b)

\* C13 as stated: the window bounds are converted to frame indices by
\* rounding to nearest, start_frame = round(start_time * fps) and end_frame =
\* round(end_time * fps), before clamping (start_time * fps = 1.5 gives 2).
C13_WindowRoundingAsStated ==
    (pc \in {"mm_sampled", "mm_raised"} /\ HasWindow /\ total_frames >= 1) =>
        /\ start_frame = ClampedStart(PyRound(start_time[1] * fps, TimeDen))
        /\ end_frame = Max2(start_frame + 1,
                            Min2(PyRound(end_time[1] * fps, TimeDen), total_frames))

\* C13 amended: the window bounds are converted to frame indices by cutting
\* toward zero, start_frame = int(start_time * fps) and end_frame =
\* int(end_time * fps), before clamping (start_time * fps = 1.5 gives 1).
C13_WindowTruncation ==
    (pc \in {"mm_sampled", "mm_raised"} /\ HasWindow /\ total_frames >= 1) =>
        /\ LET ks == TruncationOf(start_time[1] * fps, TimeDen)
               ke == TruncationOf(end_time[1] * fps, TimeDen)
           IN  /\ start_frame = ClampedStart(ks)
               /\ end_frame = Max2(start_frame + 1, Min2(ke, total_frames))
        /\ (2 * start_time[1] * fps = 3 * TimeDen /\ total_frames >= 3) =>
               start_frame = 1

\* start_time * fps = 1.5: start_time 0.5 s at 3 fps
C13_Witness ==
    /\ pc = "mm_sampled"
    /\ HasWindow
    /\ 2 * start_time[1] * fps = 3 * TimeDen
    /\ total_frames >= 3
    /\ start_frame = 1

SamplingPc == {"mm_start", "mm_sampled", "mm_raised", "vs_start", "vs_sampled"}
RejectedPc == {"ep_rejected", "rq_rejected"}

----------------------------------------------------------------------------
(* Properties of the audio analyzer *)

AudioTyped == pc \in {"a_typed", "a_mood", "a_done"}
MoodAnalyzed == pc \in {"a_mood", "a_done"}

\* C17: _detect_audio_type returns 'speech' exactly when zcr_mean > 0.10 and
\* sc_std < 1000, 'music' exactly when zcr_mean < 0.08 and sc_std > 1000, and
\* 'mixed' for every other input, including every value on a threshold
\* (zcr_mean = 0.08 or 0.10, sc_std = 1000) and the gap point zcr_mean = 0.09,
\* sc_std = 500.
C17_AudioTypeRule ==
    AudioTyped =>
        /\ audio_type \in {"speech", "music", "mixed"}
        /\ audio_type = "speech" <=> (zcr_mean > 10 /\ sc_std < 1000)
        /\ audio_type = "music" <=> (zcr_mean < 8 /\ sc_std > 1000)
        /\ (zcr_mean \in {8, 10} \/ sc_std = 1000) => audio_type = "mixed"
        /\ (zcr_mean = 9 /\ sc_std = 500) => audio_type = "mixed"

C17_Witness ==
    /\ pc = "a_typed"
    /\ zcr_mean = 10
    /\ sc_std = 999
    /\ audio_type = "mixed"

\* the label of the 3x3 mood table for a valence and an arousal
MoodTable(valence, arousal) ==
    CASE valence = "positive" /\ arousal = "high" -> "Happy/Energetic"
      [] valence = "positive" /\ arousal = "medium" -> "Content/Pleasant"
      [] valence = "positive" /\ arousal = "low" -> "Peaceful/Relaxed"
      [] valence = "neutral" /\ arousal = "high" -> "Excited/Tense"
      [] valence = "neutral" /\ arousal = "medium" -> "Neutral/Balanced"
      [] valence = "neutral" /\ arousal = "low" -> "Calm/Subdued"
      [] valence = "negative" /\ arousal = "high" -> "Angry/Aggressive"
      [] valence = "negative" /\ arousal = "medium" -> "Melancholic/Somber"
      [] valence = "negative" /\ arousal = "low" -> "Sad/Depressing"
      [] OTHER -> "no such pair"

\* C18: for every feature vector (tempo, rms_energy_mean,
\* spectral_centroid_mean), _analyze_mood derives valence and arousal by the
\* threshold rules and returns the label of the 3x3 table for that pair; the
\* result is never 'Unknown' (tempo 130, energy 0.2, centroid 2500 and tempo
\* 140, energy 0.18, centroid 2200 give positive, high, 'Happy/Energetic').
C18_MoodClassifier ==
    MoodAnalyzed =>
        LET m == mood[1]
            tempo == features.tempo
            energy == features.rms_energy_mean
            centroid == features.spectral_centroid_mean
        IN  /\ m.valence = "positive" <=> (centroid > 2000 /\ energy > 10)
            /\ m.valence = "negative" <=> (centroid < 1500 /\ energy < 8)
            /\ m.valence = "neutral" <=>
                   ~(centroid > 2000 /\ energy > 10) /\ ~(centroid < 1500 /\ energy < 8)
            /\ m.arousal = "high" <=> (tempo > 120 \/ energy > 15)
            /\ m.arousal = "low" <=>
                   ~(tempo > 120 \/ energy > 15) /\ tempo < 90 /\ energy < 8
            /\ m.arousal = "medium" <=>
                   ~(tempo > 120 \/ energy > 15) /\ ~(tempo < 90 /\ energy < 8)
            /\ m.mood = MoodTable(m.valence, m.arousal)
            /\ m.mood # "Unknown"
            /\ m.mood # "no such pair"
            /\ ((tempo = 130 /\ energy = 20 /\ centroid = 2500)
                    \/ (tempo = 140 /\ energy = 18 /\ centroid = 2200)) =>
                   (m.valence = "positive" /\ m.arousal = "high"
                       /\ m.mood = "Happy/Energetic")

C18_Witness ==
    /\ pc = "a_mood"
    /\ features = [tempo |-> 140, rms_energy_mean |-> 18,
                   spectral_centroid_mean |-> 2200]
    /\ mood[1].mood = "Happy/Energetic"

\* C19: analyze_complete_audio returns a non-null music_analysis if and only
\* if the detected audio type is 'music' or 'mixed'; for 'speech' the music
\* analysis step is not run and music_analysis is None.
C19_MusicAnalysisGate ==
    /\ pc = "a_done" =>
           /\ music_analysis # None <=> audio_type \in {"music", "mixed"}
           /\ audio_type = "speech" => (music_analysis = None /\ hpss = None)
           /\ music_analysis # None => hpss # None
    /\ pc # "a_done" => (music_analysis = None /\ hpss = None)

C19_Witness ==
    /\ pc = "a_done"
    /\ audio_type = "speech"
    /\ music_analysis = None

\* C20: when harmonic energy and percussive energy are both exactly 0,
\* instrumentalness is exactly 0.5 and no division by zero occurs; for any
\* non-zero total energy instrumentalness lies in [0, 1].
C20_SilenceGuard ==
    (pc = "a_done" /\ music_analysis # None) =>
        LET inst == music_analysis[1].instrumentalness
            ratio == music_analysis[1].harmonic_ratio
            harmonic_energy == hpss[1]
            percussive_energy == hpss[2]
        IN  /\ inst[2] > 0
            /\ ratio[2] > 0
            /\ (harmonic_energy = 0 /\ percussive_energy = 0) =>
                   (2 * inst[1] = inst[2] /\ ratio[1] = 0)
            /\ harmonic_energy + percussive_energy > 0 =>
                   /\ 0 <= inst[1]
                   /\ inst[1] <= inst[2]
                   /\ inst[1] * (harmonic_energy + percussive_energy + 1)
                          = harmonic_energy * inst[2]

\* silence: zero-crossing rate 0, both energies 0
C20_Witness ==
    /\ pc = "a_done"
    /\ zcr_mean = 0
    /\ hpss = <<0, 0>>
    /\ music_analysis[1].instrumentalness = <<1, 2>>

----------------------------------------------------------------------------
(* Properties of the file validator *)

\* C21: validate_file_type returns True exactly when the lower-cased
\* filename extension is in SUPPORTED_FORMATS[expected_type] and otherwise
\* raises HTTPException with status 400 (also when the filename is missing);
\* an extension valid for one media type is rejected for the others (.jpg
\* for video, .mp4 for audio).
C21_FileTypeValidation ==
    pc = "fv_type_done" =>
        LET accepted == /\ Len(upload.filename) > 0
                        /\ Lower(Suffix(upload.filename)) \in
                               SupportedFormats(expected_type)
        IN  /\ ~outcome.raised <=> accepted
            /\ outcome.raised => outcome.status_code = 400
            /\ ~outcome.raised =>
                   \A other \in MediaTypes \ {expected_type} :
                       ValidateFileType(upload, other).raised
            /\ (upload.filename = <<"t", ".", "j", "p", "g">>
                    /\ expected_type = "video") => outcome.raised
            /\ (upload.filename = <<"t", ".", "m", "p", "4">>
                    /\ expected_type = "audio") => outcome.raised

\* an upper-case extension is accepted
C21_Witness ==
    /\ pc = "fv_type_done"
    /\ upload.filename = <<"T", ".", "J", "P", "G">>
    /\ expected_type = "image"
    /\ ~outcome.raised

\* C22: validate_file_size raises HTTPException with status 413 exactly when
\* the file size is strictly greater than FILE_LIMITS[file_type] (a file of
\* exactly the limit passes and returns True), and in both outcomes leaves
\* the file's read position at 0.
C22_FileSizeValidation ==
    pc = "fv_size_done" =>
        /\ outcome.raised <=> upload.size > FileLimits(expected_type)
        /\ outcome.raised => outcome.status_code = 413
        /\ upload.size = FileLimits(expected_type) => outcome = ReturnsTrue
        /\ file_pos = 0

\* a file of exactly the limit passes
C22_Witness ==
    /\ pc = "fv_size_done"
    /\ expected_type = "video"
    /\ upload.size = 100 * 1024 * 1024
    /\ ~outcome.raised
    /\ file_pos = 0

----------------------------------------------------------------------------
(* Properties of the model manager *)

\* C23: GET /api/health answers with a success response in every model
\* state (loaded, not loaded, load failed); the reported status is
\* 'unhealthy' and available_endpoints is empty exactly when
\* model_manager.is_ready() is false, and 'healthy' or 'degraded' with the
\* endpoint list only when it is true.
C23_HealthCheck ==
    /\ [](pc = "ld_idle" => ENABLED HealthCheck)
    /\ [][HealthCheck =>
            LET r == health'[1]
            IN  /\ r.success
                /\ r.status_code = 200
                /\ ~IsReady <=> r.data.status = "unhealthy"
                /\ ~IsReady <=> r.data.available_endpoints = << >>
                /\ IsReady => /\ r.data.status \in {"healthy", "degraded"}
                              /\ r.data.available_endpoints = Endpoints]_vars

\* a health check taken when models_loaded is set but a later reload of the
\* Moondream model failed
C23_Witness ==
    /\ pc = "ld_idle"
    /\ health # None
    /\ health[1].data.models_loaded
    /\ health[1].data.status = "unhealthy"
    /\ health[1].data.available_endpoints = << >>

\* C30: after any sequence of load_all_models calls, each of which may
\* succeed or fail per model, get_moondream_model and get_whisper_model
\* return a model only if that model is currently loaded and raise
\* RuntimeError otherwise; equivalently models_loaded = True always implies
\* that both wrapped models report loaded and that initialization_error is
\* None.
C30_ManagerReadiness ==
    pc = "ld_idle" =>
        /\ ~GetModel("moondream", moondream_loaded).raised => moondream_loaded
        /\ ~GetModel("whisper", whisper_loaded).raised => whisper_loaded
        /\ models_loaded => /\ moondream_loaded /\ whisper_loaded
                            /\ initialization_error = None

----------------------------------------------------------------------------
(* Properties of the sampling window *)

\* C26: for total_frames >= 1 and any window (negative start, start or end
\* beyond the end of the video, end before start), _analyze_video_frames
\* computes start_frame < end_frame <= total_frames, and every index it
\* computes lies in 0 .. total_frames - 1.
C26_WindowInsideVideo ==
    (/\ pc \in {"mm_sampled", "mm_raised"}
     /\ total_frames >= 1
     /\ HasWindow) =>
        /\ 0 <= start_frame
        /\ start_frame < end_frame
        /\ end_frame <= total_frames
        /\ \A i \in 1..Len(frame_indices) :
               0 <= frame_indices[i] /\ frame_indices[i] <= total_frames - 1

\* a window that starts after the last frame and ends before it starts
C26_Witness ==
    /\ pc = "mm_sampled"
    /\ total_frames >= 2
    /\ HasWindow
    /\ IntDiv(start_time[1] * fps, TimeDen) > total_frames
    /\ end_time[1] < start_time[1]
    /\ frame_indices = <<total_frames - 1>>

----------------------------------------------------------------------------
(* Properties of the mood labels *)

\* the feature vectors of the initial states
FeatureVectors ==
    [tempo : TempoSet, rms_energy_mean : RmsEnergySet,
     spectral_centroid_mean : CentroidSet]

\* the labels _analyze_mood returns over all of them
ReturnedMoods == {AnalyzeMood(f).mood : f \in FeatureVectors}

MoodLabels == {MoodMap[k] : k \in DOMAIN MoodMap}

\* C25: _analyze_mood never yields valence 'positive' together with arousal
\* 'low' (positive needs energy > 0.10, low needs energy < 0.08), so the label
\* 'Peaceful/Relaxed' is never returned; each of the other eight labels of
\* the table is returned for some feature vector.
C25_PeacefulUnreachable ==
    /\ MoodAnalyzed =>
           /\ ~(mood[1].valence = "positive" /\ mood[1].arousal = "low")
           /\ mood[1].mood # "Peaceful/Relaxed"
           /\ mood[1].valence = "positive" => features.rms_energy_mean > 10
           /\ mood[1].arousal = "low" => features.rms_energy_mean < 8
    /\ ReturnedMoods = MoodLabels \ {"Peaceful/Relaxed"}
    /\ Cardinality(ReturnedMoods) = 8

\* a bright, slow, quiet signal: the nearest a signal comes to the pair
C25_Witness ==
    /\ MoodAnalyzed
    /\ features.spectral_centroid_mean > 2000
    /\ features.tempo < 90
    /\ features.rms_energy_mean < 8
    /\ mood[1].mood = "Calm/Subdued"

----------------------------------------------------------------------------
(* Properties of the upload services *)

UploadRejected == ValidateUpload(upload, upload_content_type, expected_type).raised

----------------------------------------------------------------------------
(* Properties of the capture and the temporary images *)

\* the call of _analyze_video_frames has ended: with a result, with an
\* exception out of the frame loop, with an exception out of the window
\* computation
FramesExited == pc \in {"fr_done", "fr_raised", "mm_raised"}

\* C28: whenever _analyze_video_frames ends after the capture was opened, by
\* returning, by an exception of the window computation (frame rate 0 with a
\* window) or by an exception of a frame's analysis, the capture has been
\* released and no temporary image of the call exists.
C28_ResourceRelease ==
    (FramesExited /\ cap_state # "none") =>
        /\ cap_state = "released"
        /\ tmp_images = {}

----------------------------------------------------------------------------
(* Properties of the source file *)

----------------------------------------------------------------------------
(* Properties of the AWS analyzer *)

StrategyOrder == <<"invoke_model", "converse", "converted_jpeg">>

\* str(e1), str(e2) of the strategies that have failed so far
FailedSoFar == e1 \o e2

\* C24: for a valid image the strategies are invoked in the order
\* invoke_model, converse, converted_jpeg; once one succeeds the result is
\* returned with its method and no further strategy is invoked; a failure
\* result is returned only after all three were invoked and failed, and its
\* 'errors' are the three messages in attempt order; the call ends with a
\* returned dictionary, never with an exception.
C24_StrategyChain ==
    /\ [](image_format # None =>
            /\ attempt_log = SubSeq(StrategyOrder, 1, Len(attempt_log))
            /\ pc = "aw_done" =>
                   /\ aws_result # None
                   /\ Len(attempt_log) >= 1
                   /\ aws_result[1].success =>
                          /\ aws_result[1].method = attempt_log[Len(attempt_log)]
                          /\ Len(FailedSoFar) = Len(attempt_log) - 1
                   /\ ~aws_result[1].success =>
                          /\ attempt_log = StrategyOrder
                          /\ aws_result[1].errors =
                                 FailedSoFar \o <<aws_result[1].error>>
                          /\ Len(aws_result[1].errors) = 3)
    /\ [][aws_result # None => attempt_log' = attempt_log]_vars

C24_Witness ==
    /\ pc = "aw_done"
    /\ image_format = <<"png">>
    /\ ~aws_result[1].success
    /\ aws_result[1].errors =
           <<"AccessDeniedException", "ValidationException", "cannot identify image file">>
====
